---- MODULE Spec2Model ----
(***************************************************************************)
(* Model of mekara's MCP script execution engine: the step model, the      *)
(* frame stack of McpScriptExecutor, the derivation of the pending value,  *)
(* the tool surface of MekaraServer and the VCR record/replay adapters.    *)
(***************************************************************************)
EXTENDS Integers, Sequences, FiniteSets, TLC

VARIABLES
    stack,     \* McpScriptExecutor.stack
    recent,    \* McpScriptExecutor.recently_executed_steps
    asserts,   \* whether the interpreter runs assert statements (off under -O)
    call,      \* the operation the driver issued last
    response,  \* what that operation returned to the driver
    result,    \* the RunResult the operation built, if it ran the loop
    reads,     \* values of the reads of `pending` since the last other operation
    cas,       \* the VCRCassette attached to the server, if any
    pc,        \* "idle", or "auto" while a tool call awaits an Auto step
    before,    \* the stack as it was when the last operation was issued
    session    \* history of a recorded session: the stack each call left

vars == <<stack, recent, asserts, call, response, result, reads, cas, pc, before, session>>

\* ------------------------------------------------------------------ bounds
\* Largest number of frames the driver is allowed to pile up.
MaxDepth == 2

\* Largest number of tool calls of a recorded session.
MaxCalls == 3

\* Largest number of events recorded on a cassette used directly.
MaxEvents == 3

\* ----------------------------------------------------------- sequencing
\* F applied to the value of a statement that has run: one statement of the
\* code after another, each run once.
Then(v, F(_)) == CHOOSE y \in {F(x) : x \in {v}} : TRUE

\* ------------------------------------------------------------- step model
NoStep == [k |-> "none", id |-> "", act |-> "", name |-> "", wd |-> "", about |-> "", detail |-> 0, oid |-> <<>>]

Llm(prompt) == [NoStep EXCEPT !.k = "llm", !.id = prompt]

Auto(act, cmd) == [NoStep EXCEPT !.k = "auto", !.id = cmd, !.act = act]

CallScript(name, wd) == [NoStep EXCEPT !.k = "call", !.id = name, !.name = name, !.wd = wd]

\* ------------------------------------------------------------ result model
NoResult == [k |-> "none", success |-> FALSE, code |-> 0, aborted |-> FALSE, steps |-> 0, exc |-> "", etype |-> "", out |-> "", desc |-> ""]

ShellResult(success, code, out) == [NoResult EXCEPT !.k = "shell", !.success = success, !.code = code, !.out = out]

CallResult(out) == [NoResult EXCEPT !.k = "call", !.success = TRUE, !.out = out]

AutoException(exc, etype, desc, out) == [NoResult EXCEPT !.k = "exception", !.exc = exc, !.etype = etype, !.desc = desc, !.out = out]

LlmResult(outputs) == [NoResult EXCEPT !.k = "llm", !.success = TRUE, !.out = outputs]

ScriptCallResult(success, aborted, steps, exc, etype) == [NoResult EXCEPT !.k = "scriptcall", !.success = success, !.aborted = aborted, !.steps = steps, !.exc = exc, !.etype = etype]

\* -------------------------------------------------------- script registry
\* The scripts of the tests and of the bundled test commands, as the
\* sequences of steps their generators yield.
CompiledScripts == {"parent", "child", "autoonly", "random", "nested", "double", "broken"}

NLScripts == {"imagine"}

ExecutorDir == "/w"

Steps(name) ==
    CASE name = "parent"   -> << Llm("Please do something") >>
      [] name = "child"    -> << Llm("First step"), Llm("Second step") >>
      [] name = "autoonly" -> << Auto("shell", "echo hello") >>
      [] name = "random"   -> << Auto("shell", "shuf"), Llm("guess"), Auto("call", "print_message"), Llm("feedback") >>
      [] name = "nested"   -> << CallScript("random", ""), Llm("difference"), CallScript("double", "/tmp"),
                                 Auto("shell", "cat"), CallScript("imagine", ""), Llm("owe") >>
      [] name = "double"   -> << Auto("call", "double_or_nothing"), Auto("shell", "echo") >>
      [] name = "broken"   -> << CallScript("ghost", ""), Auto("shell", "echo hello") >>
      [] OTHER             -> << >>

load_script(name) ==
    IF name \in CompiledScripts THEN "compiled"
    ELSE IF name \in NLScripts THEN "nl"
    ELSE "error"

\* Frames a script may need above itself while it runs.
Height(name) == IF name \in {"nested", "broken"} THEN 2 ELSE 1

\* --------------------------------------------------------------- frames
Frame(kind, fid, name, wd) ==
    [kind |-> kind, fid |-> fid, name |-> name, wd |-> wd, pos |-> 0, idx |-> 0,
     cur |-> NoStep, shown |-> FALSE, exc |-> NoResult, fed |-> NoResult]

CompiledScriptFrame(fid, name, wd) == Frame("compiled", fid, name, wd)

NLScriptFrame(fid, name, wd) == Frame("nl", fid, name, wd)

Top(s) == s[Len(s)]

SetTop(s, f) == [s EXCEPT ![Len(s)] = f]

Pop(s) == SubSeq(s, 1, Len(s) - 1)

\* A fresh object identity: the smallest one no live frame uses.
FreshFid(s) == CHOOSE n \in 1..(Len(s) + 1) :
                  /\ \A i \in 1..Len(s) : s[i].fid # n
                  /\ \A m \in 1..(n - 1) : \E i \in 1..Len(s) : s[i].fid = m

\* generator.send / next(generator): the generator of script `name`
\* suspended at its pos-th yield (0: not started) is resumed.
GenSend(f) ==
    IF f.pos < Len(Steps(f.name))
    THEN [step |-> [Steps(f.name)[f.pos + 1] EXCEPT !.oid = <<f.fid, f.pos + 1>>], pos |-> f.pos + 1]
    ELSE [step |-> NoStep, pos |-> Len(Steps(f.name)) + 1]

\* CompiledScriptFrame.current_step (getter): the step and the frame after
\* the lazy pull.
current_step(f) ==
    IF f.cur = NoStep
    THEN Then(GenSend(f), LAMBDA g : [step |-> g.step, f |-> [f EXCEPT !.cur = g.step, !.pos = g.pos]])
    ELSE [step |-> f.cur, f |-> f]

\* advance that counts the send that finds the generator exhausted as well.
advance_always_counting(f, res) ==
    Then(GenSend(f), LAMBDA g :
        IF g.step = NoStep
        THEN [f EXCEPT !.cur = NoStep, !.pos = g.pos, !.idx = @ + 1, !.fed = res]
        ELSE [f EXCEPT !.cur = g.step, !.pos = g.pos, !.idx = @ + 1, !.fed = res])

\* CompiledScriptFrame.advance
advance(f, res) ==
    Then(GenSend(f), LAMBDA g :
        IF g.step = NoStep
        THEN [f EXCEPT !.cur = NoStep, !.pos = g.pos, !.fed = res]
        ELSE [f EXCEPT !.cur = g.step, !.pos = g.pos, !.idx = @ + 1, !.fed = res])

\* ------------------------------------------------------- pending values
NoPending == [k |-> "none", step |-> NoStep, name |-> "", idx |-> 0, path |-> <<>>, ctx |-> <<>>, exc |-> NoResult]

PendingLlmStep(step, name, idx, path, ctx) ==
    [k |-> "llm", step |-> step, name |-> name, idx |-> idx, path |-> path, ctx |-> ctx, exc |-> NoResult]

PendingNLScript(name, content) ==
    [k |-> "nl", step |-> NoStep, name |-> name, idx |-> 0, path |-> <<>>, ctx |-> content, exc |-> NoResult]

PendingNLFallback(name, nl, exc, idx, path) ==
    [k |-> "fallback", step |-> NoStep, name |-> name, idx |-> idx, path |-> path, ctx |-> nl, exc |-> exc]

\* The processed NL source text of a script.
load_nl_source(f) == << f.name >>

get_stack_path(s) ==
    [i \in 1..Len(s) |-> IF s[i].kind = "nl" THEN [n |-> s[i].name, i |-> -1]
                         ELSE [n |-> s[i].name, i |-> s[i].idx]]

\* The NL source on the first read of a frame's pending value, nothing after.
context_once(f) == IF ~f.shown THEN load_nl_source(f) ELSE <<>>

\* McpScriptExecutor.pending: the value read and the stack the read leaves.
pending(s) ==
    IF s = <<>> THEN [val |-> NoPending, stack |-> s]
    ELSE Then(Top(s), LAMBDA top :
      IF top.kind = "compiled" /\ top.exc # NoResult
      THEN Then(SetTop(s, [top EXCEPT !.shown = TRUE]), LAMBDA s2 :
           [val |-> PendingNLFallback(top.name, context_once(top), top.exc, top.idx, get_stack_path(s2)),
            stack |-> s2])
      ELSE IF top.kind = "nl"
      THEN [val |-> PendingNLScript(top.name, load_nl_source(top)), stack |-> s]
      ELSE Then(current_step(top), LAMBDA cs :
           IF cs.step.k = "llm"
           THEN Then(SetTop(s, [cs.f EXCEPT !.shown = TRUE]), LAMBDA s2 :
                [val |-> PendingLlmStep(cs.step, top.name, cs.f.idx, get_stack_path(s2), context_once(cs.f)),
                 stack |-> s2])
           ELSE [val |-> NoPending, stack |-> SetTop(s, cs.f)]))

\* ------------------------------------------------------ executed steps
ExecutedStep(name, idx, step, res, entry, exit) ==
    [script_name |-> name, step_index |-> idx, step |-> step, result |-> res, is_entry |-> entry, is_exit |-> exit]

\* -------------------------------------------------------------- VCR events
\* An event object: its class and the fields of the event dataclasses.
NoEvent ==
    [class |-> "", name |-> "", working_dir |-> "", outputs |-> "", tool |-> "", output |-> <<>>,
     inputs |-> <<>>, result |-> NoResult]

McpStartInputEvent(name, working_dir) ==
    [NoEvent EXCEPT !.class = "McpStartInputEvent", !.name = name, !.working_dir = working_dir]

McpContinueCompiledScriptInputEvent(outputs) ==
    [NoEvent EXCEPT !.class = "McpContinueCompiledScriptInputEvent", !.outputs = outputs]

McpStatusInputEvent == [NoEvent EXCEPT !.class = "McpStatusInputEvent"]

McpFinishNLScriptInputEvent == [NoEvent EXCEPT !.class = "McpFinishNLScriptInputEvent"]

McpToolOutputEvent(tool, output) ==
    [NoEvent EXCEPT !.class = "McpToolOutputEvent", !.tool = tool, !.output = output]

AutoStepEvent(working_dir, inputs, res) ==
    [NoEvent EXCEPT !.class = "AutoStepEvent", !.working_dir = working_dir, !.inputs = inputs, !.result = res]

\* AutoStepInputs.from_step: the action type and the command or the
\* function's name.
from_step(step) == [action_type |-> step.act, action |-> step.id]

\* The result as the cassette keeps it: of an exception only its str().
result_data(res) == IF res.k = "exception" THEN [res EXCEPT !.etype = ""] ELSE res

\* build_recorded_auto_step_event
build_recorded_auto_step_event(step, res, working_dir) ==
    AutoStepEvent(working_dir, from_step(step), result_data(res))

\* reconstruct_auto_step_result: a recorded exception comes back as a plain
\* Exception carrying the recorded text.
reconstruct_auto_step_result(e) ==
    IF e.result.k = "exception" THEN [e.result EXCEPT !.etype = "Exception"] ELSE e.result

\* The to_dict() of ShellResultData, CallResultData and AutoExceptionData.
result_to_dict(res) ==
    CASE res.k = "shell" ->
            [type |-> "shell", success |-> res.success, exit_code |-> res.code, output |-> res.out]
      [] res.k = "call" ->
            [type |-> "call", success |-> res.success, value |-> "", error |-> "", output |-> res.out]
      [] OTHER ->
            [type |-> "exception", success |-> res.success, exception |-> res.exc,
             step_description |-> res.desc, output |-> res.out]

\* The to_dict() of the event classes.
to_dict(e) ==
    CASE e.class = "McpStartInputEvent" ->
            [type |-> "mcp_tool_input", tool |-> "start", input |-> [name |-> e.name, working_dir |-> e.working_dir]]
      [] e.class = "McpContinueCompiledScriptInputEvent" ->
            [type |-> "mcp_tool_input", tool |-> "continue_compiled_script", input |-> [outputs |-> e.outputs]]
      [] e.class = "McpStatusInputEvent" ->
            [type |-> "mcp_tool_input", tool |-> "status", input |-> <<>>]
      [] e.class = "McpFinishNLScriptInputEvent" ->
            [type |-> "mcp_tool_input", tool |-> "finish_nl_script", input |-> <<>>]
      [] e.class = "McpToolOutputEvent" ->
            [type |-> "mcp_tool_output", tool |-> e.tool, output |-> e.output]
      [] OTHER ->
            [type |-> "auto_step", working_dir |-> e.working_dir, inputs |-> e.inputs,
             result |-> result_to_dict(e.result)]

\* dict.get(key, default)
get(data, key, default) == IF key \in DOMAIN data THEN data[key] ELSE default

\* _check_keys raises: the dict has a key outside the expected ones.
check_keys(data, expected) == DOMAIN data \ expected # {}

\* data[key] raises KeyError for one of the keys.
KeyError(data, keys) == keys \ DOMAIN data # {}

\* The keys of _MCP_INPUT_TYPES.
MCP_INPUT_TYPES == {"start", "continue_compiled_script", "status", "finish_nl_script"}

\* mcp_input_from_dict raises: a tool outside the registry, or the
\* from_dict of the tool's class raises.
mcp_input_raises(d) ==
    \/ get(d, "tool", "") \notin MCP_INPUT_TYPES
    \/ check_keys(d, {"type", "tool", "input"})
    \/ CASE d.tool = "start" ->
               \/ check_keys(get(d, "input", <<>>), {"name", "arguments", "working_dir"})
               \/ KeyError(get(d, "input", <<>>), {"name"})
         [] d.tool = "continue_compiled_script" ->
               \/ check_keys(get(d, "input", <<>>), {"outputs"})
               \/ KeyError(get(d, "input", <<>>), {"outputs"})
         [] OTHER -> check_keys(get(d, "input", <<>>), {})

\* mcp_input_from_dict
mcp_input_from_dict(d) ==
    CASE d.tool = "start" -> McpStartInputEvent(d.input.name, get(d.input, "working_dir", ""))
      [] d.tool = "continue_compiled_script" -> McpContinueCompiledScriptInputEvent(d.input.outputs)
      [] d.tool = "status" -> McpStatusInputEvent
      [] OTHER -> McpFinishNLScriptInputEvent

\* AutoStepInputs.from_dict raises.
inputs_raises(data) ==
    \/ check_keys(data, {"action_type", "action", "context", "kwargs"})
    \/ KeyError(data, {"action_type", "action"})

\* AutoStepInputs.from_dict
inputs_from_dict(data) == [action_type |-> data.action_type, action |-> data.action]

\* result_from_dict raises: no type, or the from_dict of the class the
\* type selects raises; a type that is neither "shell" nor "call" selects
\* AutoExceptionData.
result_raises(data) ==
    \/ KeyError(data, {"type"})
    \/ CASE data.type = "shell" ->
               \/ check_keys(data, {"type", "success", "exit_code", "output"})
               \/ KeyError(data, {"success", "exit_code"})
         [] data.type = "call" ->
               \/ check_keys(data, {"type", "success", "value", "error", "output"})
               \/ KeyError(data, {"success"})
         [] OTHER ->
               \/ check_keys(data, {"type", "success", "exception", "step_description", "output"})
               \/ KeyError(data, {"success", "exception", "step_description"})

\* result_from_dict
result_from_dict(data) ==
    CASE data.type = "shell" -> ShellResult(data.success, data.exit_code, get(data, "output", ""))
      [] data.type = "call" -> [CallResult(get(data, "output", "")) EXCEPT !.success = data.success]
      [] OTHER ->
            [AutoException(data.exception, "", data.step_description, get(data, "output", ""))
                EXCEPT !.success = data.success]

\* event_from_dict raises: an unknown type, or the from_dict of the
\* event's class raises.
event_raises(d) ==
    CASE get(d, "type", "") = "mcp_tool_input" -> mcp_input_raises(d)
      [] get(d, "type", "") = "mcp_tool_output" ->
            check_keys(d, {"type", "tool", "output"}) \/ KeyError(d, {"tool", "output"})
      [] get(d, "type", "") = "auto_step" ->
            \/ check_keys(d, {"type", "working_dir", "inputs", "result", "index"})
            \/ KeyError(d, {"working_dir", "inputs", "result"})
            \/ inputs_raises(d.inputs)
            \/ result_raises(d.result)
      [] OTHER -> TRUE

\* event_from_dict
event_from_dict(d) ==
    IF d.type = "mcp_tool_input" THEN mcp_input_from_dict(d)
    ELSE IF d.type = "mcp_tool_output" THEN McpToolOutputEvent(d.tool, d.output)
    ELSE AutoStepEvent(d.working_dir, inputs_from_dict(d.inputs), result_from_dict(d.result))

\* ------------------------------------------------------------- YAML text
\* One line of text: whether it starts with the list marker "- ", the
\* number of spaces before its content, and the content as a key and a
\* value (both empty on an empty line).
Line(indent, key, val) == [dash |-> FALSE, indent |-> indent, key |-> key, val |-> val]

\* `line == first_line` on two lines of text.
SameLine(a, b) == a.dash = b.dash /\ a.indent = b.indent /\ a.key = b.key /\ a.val = b.val

\* A line of a string, empty or not.
TextLine(part, output) == [blank |-> FALSE, part |-> part, of |-> output]

BlankLine == [blank |-> TRUE, part |-> "", of |-> <<>>]

\* The lines of a tool response: the texts _format_run_result and
\* Pending.format build have sections separated by empty lines, the stack
\* summary of status is three lines, every other response is one line.
splitlines(output) ==
    IF output.kind \in {"run", "completed"} \/ (output.kind = "status" /\ output.pend # <<>>)
    THEN << TextLine("head", output), BlankLine, TextLine("body", output) >>
    ELSE IF output.kind = "status" /\ output.depth > 0
    THEN << TextLine("script", output), TextLine("depth", output), TextLine("path", output) >>
    ELSE << TextLine("all", output) >>

\* _represent_str: a string of several lines is a literal block scalar,
\* whose empty lines yaml.dump writes without indentation.
represent_str(key, lines) ==
    IF Len(lines) = 1 THEN << Line(0, key, lines[1]) >>
    ELSE << Line(0, key, "|") >> \o
         [i \in 1..Len(lines) |-> IF lines[i].blank THEN Line(0, "", "") ELSE Line(2, "text", lines[i])]

\* The output of a command that ends with an empty line.
BlankEnded == "out\n\n"

\* The last scalar of the event's dict is a string ending with an empty
\* line: yaml.dump writes it as a block scalar that keeps its trailing
\* line breaks ("|+").
keep_chomping(d) == d.type = "auto_step" /\ d.result.output = BlankEnded

\* The block mapping yaml.dump writes for an event dict: a kept trailing
\* empty line is a bare line after the mapping.
block_mapping(d) ==
    IF d.type = "mcp_tool_output"
    THEN << Line(0, "type", d.type), Line(0, "tool", d.tool) >> \o represent_str("output", splitlines(d.output))
    ELSE IF d.type = "mcp_tool_input"
    THEN << Line(0, "type", d.type), Line(0, "tool", d.tool), Line(0, "input:", ""), Line(2, "input", d.input) >>
    ELSE << Line(0, "type", d.type), Line(0, "working_dir", d.working_dir),
            Line(0, "inputs:", ""), Line(2, "inputs", d.inputs), Line(0, "result:", ""), Line(2, "result", d.result) >>
         \o (IF keep_chomping(d) THEN << Line(0, "", "") >> ELSE <<>>)

\* The document end marker "..." yaml.dump writes after a document that
\* ends with kept line breaks.
document_end(d) == IF keep_chomping(d) THEN << Line(0, "...", "") >> ELSE <<>>

\* yaml.dump(event_dict): the lines of one event as a document of its own.
dump_event(d) == block_mapping(d) \o document_end(d)

\* An event as an item of the `events` list in yaml.dump(data): the marker
\* on its first line, the other lines two columns deeper, empty lines bare.
list_item(lines) ==
    [i \in 1..Len(lines) |->
        IF i = 1 THEN [lines[i] EXCEPT !.dash = TRUE]
        ELSE IF lines[i].key = "" THEN lines[i]
        ELSE [lines[i] EXCEPT !.indent = @ + 2]]

\* The loop of save() over the lines of an appended event: "- " before
\* each line equal to the first, two spaces before every other line.
appended_item(lines) ==
    [i \in 1..Len(lines) |->
        IF SameLine(lines[i], lines[1]) THEN [lines[i] EXCEPT !.dash = TRUE]
        ELSE [lines[i] EXCEPT !.indent = @ + 2]]

\* The lines of the events from the n-th on, each laid out as an item of
\* the dumped list or as save() appends it.
RECURSIVE event_lines(_, _, _)
event_lines(events, n, appending) ==
    IF n > Len(events) THEN <<>>
    ELSE (IF appending THEN appended_item(dump_event(events[n])) ELSE list_item(block_mapping(events[n])))
         \o event_lines(events, n + 1, appending)

\* yaml.dump({"initial_state": ..., "events": [...]})
dump(dicts) ==
    << Line(0, "initial_state:", ""), Line(2, "working_dir", ExecutorDir) >> \o
    (IF dicts = <<>> THEN << Line(0, "events: []", "") >>
     ELSE << Line(0, "events:", "") >> \o event_lines(dicts, 1, FALSE) \o document_end(dicts[Len(dicts)]))

\* yaml.safe_load raises on the text: a document end marker that is
\* indented stands where a key is expected, and one followed by more lines
\* ends the only document the loader accepts.
scan_raises(text) == \E i \in 1..Len(text) : text[i].key = "..." /\ (text[i].indent > 0 \/ i < Len(text))

\* The lines at which the items of the `events` list start.
item_starts(text) == SelectSeq([i \in 1..Len(text) |-> i], LAMBDA i : text[i].dash)

\* The lines of the k-th item.
item(text, k) ==
    SubSeq(text, item_starts(text)[k],
           IF k < Len(item_starts(text)) THEN item_starts(text)[k + 1] - 1 ELSE Len(text))

\* The value the lines give to a key.
value(lines, key) == lines[CHOOSE i \in 1..Len(lines) : lines[i].key = key].val

\* The dict yaml.safe_load builds from the lines of one item: a block
\* scalar is the string its lines are the lines of.
construct_mapping(lines) ==
    IF value(lines, "type") = "mcp_tool_output"
    THEN [type |-> "mcp_tool_output", tool |-> value(lines, "tool"),
          output |-> IF \E i \in 1..Len(lines) : lines[i].key = "text"
                     THEN value(lines, "text").of ELSE value(lines, "output").of]
    ELSE IF value(lines, "type") = "mcp_tool_input"
    THEN [type |-> "mcp_tool_input", tool |-> value(lines, "tool"), input |-> value(lines, "input")]
    ELSE [type |-> "auto_step", working_dir |-> value(lines, "working_dir"),
          inputs |-> value(lines, "inputs"), result |-> value(lines, "result")]

\* The `events` list yaml.safe_load reads from the text of a saved file.
load_events(text) == [k \in 1..Len(item_starts(text)) |-> construct_mapping(item(text, k))]

\* ---------------------------------------------------------------- cassette
\* VCRCassette: mode, _events, _replay_event_index, _last_saved_event_count,
\* the text of the file at its path (no line: no file) and the event list
\* yaml.safe_load reads from that text. The working directory of
\* initial_state is ExecutorDir in every cassette.
NoCassette == [mode |-> "off", events |-> <<>>, cursor |-> 0, saved |-> 0, file |-> <<>>, text |-> <<>>]

\* VCRCassette(path, mode="record", initial_state=...)
RecordCassette == [NoCassette EXCEPT !.mode = "record"]

\* What yaml.safe_load makes of the value under `events`: a list of
\* items, or a value of another kind.
List(items) == [list |-> TRUE, items |-> items]

NotAList == [list |-> FALSE, items |-> <<>>]

\* What yaml.safe_load makes of a file with the initial_state every
\* cassette here is recorded with.
Data(events) == [initial_state |-> [working_dir |-> ExecutorDir], events |-> events]

\* _load raises: no events, events that are no list, an event without a
\* type, no initial_state, no working_dir in it, or event_from_dict
\* raises for one of the events.
load_raises(data) ==
    \/ KeyError(data, {"events"})
    \/ ~data.events.list
    \/ \E i \in 1..Len(data.events.items) : KeyError(data.events.items[i], {"type"})
    \/ KeyError(data, {"initial_state"})
    \/ KeyError(data.initial_state, {"working_dir"})
    \/ \E i \in 1..Len(data.events.items) : event_raises(data.events.items[i])

\* VCRCassette(path, mode="replay"): _load
ReplayCassette(file) ==
    [NoCassette EXCEPT !.mode = "replay", !.events = [i \in 1..Len(file) |-> event_from_dict(file[i])],
                       !.saved = Len(file), !.file = file]

\* record_event without the check of the mode.
record_event_in_any_mode(c, e) == [c EXCEPT !.events = Append(@, e)]

\* VCRCassette.record_event: in replay mode it raises and nothing changes.
record_event(c, e) == IF c.mode # "record" THEN c ELSE [c EXCEPT !.events = Append(@, e)]

\* VCRCassette.has_remaining_events
has_remaining_events(c) == c.cursor < Len(c.events)

\* consume_event that moves past an event of the wrong type before raising.
consume_event_skipping(c, class) ==
    IF c.mode # "replay"
    THEN [cas |-> c, event |-> NoEvent, raise |-> "record mode"]
    ELSE IF c.cursor >= Len(c.events)
    THEN [cas |-> c, event |-> NoEvent, raise |-> "no remaining events"]
    ELSE IF class # "" /\ c.events[c.cursor + 1].class # class
    THEN [cas |-> [c EXCEPT !.cursor = @ + 1], event |-> NoEvent, raise |-> "event mismatch"]
    ELSE [cas |-> [c EXCEPT !.cursor = @ + 1], event |-> c.events[c.cursor + 1], raise |-> ""]

\* VCRCassette.consume_event: class "" stands for no event_type given.
consume_event(c, class) ==
    IF c.mode # "replay"
    THEN [cas |-> c, event |-> NoEvent, raise |-> "record mode"]
    ELSE IF c.cursor >= Len(c.events)
    THEN [cas |-> c, event |-> NoEvent, raise |-> "no remaining events"]
    ELSE IF class # "" /\ c.events[c.cursor + 1].class # class
    THEN [cas |-> c, event |-> NoEvent, raise |-> "event mismatch"]
    ELSE [cas |-> [c EXCEPT !.cursor = @ + 1], event |-> c.events[c.cursor + 1], raise |-> ""]

\* The dicts of the events after the first n.
new_events(c, n) == [i \in 1..(Len(c.events) - n) |-> to_dict(c.events[n + i])]

\* VCRCassette.save: the whole file on the first save, the new events
\* appended on the later ones.
save(c) ==
    IF c.mode # "record" THEN c
    ELSE IF c.saved = 0
    THEN [c EXCEPT !.file = new_events(c, 0), !.text = dump(new_events(c, 0)), !.saved = Len(c.events)]
    ELSE [c EXCEPT !.file = @ \o new_events(c, c.saved),
                   !.text = @ \o event_lines(new_events(c, c.saved), 1, TRUE),
                   !.saved = Len(c.events)]

\* -------------------------------------------------- auto-execution boundary
\* What the environment can do with one Auto step: a CallAction never
\* reports a soft failure (RealAutoExecutor._execute_call).
Outcomes == {"ok", "soft", "exc"}

Outcome(step, o) == IF step.act = "call" /\ o \in {"soft", "blank"} THEN "ok" ELSE o

NoRaise == [type |-> "", exc |-> "", etype |-> "", out |-> ""]

\* RealAutoExecutor._execute_shell: what a command that succeeds prints
\* depends on the directory it runs in.
stdout(wd) == IF wd = ExecutorDir THEN "out" ELSE "out elsewhere"

\* RealAutoExecutor.execute: a result, or the exception that leaves it.
RealAutoExecutor(w, step, wd, o) ==
    IF step.act = "shell"
    THEN IF Outcome(step, o) = "ok" THEN [w |-> w, res |-> ShellResult(TRUE, 0, stdout(wd)), raise |-> NoRaise]
         ELSE IF Outcome(step, o) = "blank" THEN [w |-> w, res |-> ShellResult(TRUE, 0, BlankEnded), raise |-> NoRaise]
         ELSE IF Outcome(step, o) = "soft" THEN [w |-> w, res |-> ShellResult(FALSE, 1, "errout"), raise |-> NoRaise]
         ELSE [w |-> w, res |-> NoResult,
               raise |-> [type |-> "Exception", exc |-> "no such directory", etype |-> "OSError", out |-> ""]]
    ELSE IF Outcome(step, o) = "ok" THEN [w |-> w, res |-> CallResult("printed"), raise |-> NoRaise]
         ELSE [w |-> w, res |-> NoResult,
               raise |-> [type |-> "AutoExecutionError", exc |-> "boom", etype |-> "RuntimeError", out |-> "partial"]]

\* What leaves VcrAutoExecutor.execute when replay verification fails.
ReplayError(w, type, message) ==
    [w |-> w, res |-> NoResult, raise |-> [type |-> type, exc |-> message, etype |-> type, out |-> ""]]

\* VcrAutoExecutor.execute in replay mode: nothing is executed, the next
\* event must be the recording of this step.
replay_auto_step(w, step, wd) ==
    Then(consume_event(w.cas, "AutoStepEvent"), LAMBDA c :
        IF c.raise # "" THEN ReplayError(w, "ValueError", c.raise)
        ELSE IF c.event.inputs # from_step(step)
        THEN ReplayError([w EXCEPT !.cas = c.cas], "ScriptExecutionError", "inputs mismatch")
        ELSE IF wd # c.event.working_dir
        THEN ReplayError([w EXCEPT !.cas = c.cas], "ScriptExecutionError", "working_dir mismatch")
        ELSE [w |-> [w EXCEPT !.cas = c.cas], res |-> reconstruct_auto_step_result(c.event), raise |-> NoRaise])

\* The final result of the inner executor in record mode: an exception that
\* left it becomes an AutoException result.
final_result(step, r) ==
    IF r.raise.type = "" THEN r.res
    ELSE AutoException(r.raise.exc, r.raise.etype, step.id,
                       IF r.raise.type = "AutoExecutionError" THEN r.raise.out ELSE "")

\* The inner executor runs the step but the result is not recorded.
record_auto_step_silent(w, step, wd, o) ==
    Then(RealAutoExecutor(w, step, wd, o), LAMBDA r :
        [w |-> r.w, res |-> final_result(step, r), raise |-> NoRaise])

\* VcrAutoExecutor.execute in record mode: the inner executor runs the step,
\* the result is recorded and the cassette saved.
record_auto_step(w, step, wd, o) ==
    Then(RealAutoExecutor(w, step, wd, o), LAMBDA r :
        [w |-> [r.w EXCEPT !.cas = save(record_event(@, build_recorded_auto_step_event(step, final_result(step, r), wd)))],
         res |-> final_result(step, r), raise |-> NoRaise])

\* VcrAutoExecutor.execute that runs the step for real in replay mode too.
VcrAutoExecutor_live(w, step, wd, o) ==
    IF w.cas.mode = "replay" THEN RealAutoExecutor(w, step, wd, o) ELSE record_auto_step(w, step, wd, o)

\* VcrAutoExecutor.execute
VcrAutoExecutor(w, step, wd, o) ==
    IF w.cas.mode = "replay" THEN replay_auto_step(w, step, wd) ELSE record_auto_step(w, step, wd, o)

\* The executor attached to McpScriptExecutor (AutoExecutorProtocol.execute):
\* the real one, or the VCR one when a cassette is attached.
auto_executor(w, step, wd, o) ==
    IF w.cas.mode = "off" THEN RealAutoExecutor(w, step, wd, o) ELSE VcrAutoExecutor(w, step, wd, o)

\* McpScriptExecutor._execute_auto_step: AutoExecutionError passes, every
\* other exception is wrapped into one.
execute_auto_step(w, step, frame, o) ==
    Then(auto_executor(w, step, frame.wd, o), LAMBDA r :
        IF r.raise.type = "" THEN r
        ELSE IF r.raise.type = "AutoExecutionError" THEN r
        ELSE [r EXCEPT !.raise = [type |-> "AutoExecutionError", exc |-> r.raise.exc, etype |-> r.raise.etype, out |-> ""]])

\* ------------------------------------------------------- script executor
\* _build_result that leaves recently_executed_steps as it is.
build_result_keeping(w, p) ==
    [w |-> w, executed |-> w.recent, pending |-> p, await |-> FALSE]

\* McpScriptExecutor._build_result
build_result(w, p) ==
    [w |-> [w EXCEPT !.recent = <<>>], executed |-> w.recent, pending |-> p, await |-> FALSE]

\* `await self._execute_auto_step(step, frame)`: control leaves the loop
\* until the Auto step's execution ends.
await_auto(w) == [w |-> w, executed |-> <<>>, pending |-> NoPending, await |-> TRUE]

\* `self.pending` evaluated n times in a row; the value of the last read.
RECURSIVE read_pending(_, _)
read_pending(s, n) ==
    Then(pending(s), LAMBDA r : IF n <= 1 THEN r ELSE read_pending(r.stack, n - 1))

\* `assert self.pending is not None`, `assert isinstance(self.pending, ...)`,
\* `return self._build_result(self.pending)`
return_asserted_pending(w) ==
    Then(read_pending(w.stack, IF w.asserts THEN 3 ELSE 1), LAMBDA r :
        build_result([w EXCEPT !.stack = r.stack], r.val))

\* The pending value is built without the frame being marked as shown.
return_pending_unmarked(w) ==
    Then(pending(w.stack), LAMBDA r : build_result(w, r.val))

\* `return self._build_result(self.pending)`
return_pending(w) ==
    Then(pending(w.stack), LAMBDA r : build_result([w EXCEPT !.stack = r.stack], r.val))

\* The frame under the popped one is advanced with the result of its call.
return_to_parent(w, rest, cs, res) ==
    [w EXCEPT !.stack = SetTop(rest, advance(cs.f, res)),
              !.recent = Append(@, ExecutedStep(cs.f.name, cs.f.idx, cs.step, res, FALSE, TRUE))]

\* _pop_frame reporting the number of steps instead of the step index.
pop_frame_counting(w) ==
    Then(Pop(w.stack), LAMBDA rest :
        IF rest = <<>> THEN [w EXCEPT !.stack = rest]
        ELSE IF Top(rest).kind = "compiled"
        THEN Then(current_step(Top(rest)), LAMBDA cs :
                IF cs.step.k = "call"
                THEN return_to_parent(w, rest, cs, ScriptCallResult(TRUE, FALSE, Top(w.stack).idx + 1, "", ""))
                ELSE [w EXCEPT !.stack = SetTop(rest, cs.f)])
        ELSE [w EXCEPT !.stack = rest])

\* _pop_frame advancing the parent whatever step it stands on.
pop_frame_advancing(w) ==
    Then(Pop(w.stack), LAMBDA rest :
        IF rest = <<>> THEN [w EXCEPT !.stack = rest]
        ELSE IF Top(rest).kind = "compiled"
        THEN Then(current_step(Top(rest)), LAMBDA cs :
                return_to_parent(w, rest, cs, ScriptCallResult(TRUE, FALSE, Top(w.stack).idx, "", "")))
        ELSE [w EXCEPT !.stack = rest])

\* _pop_frame taking a frame suspended at an Llm step for the caller too.
pop_frame_past_llm(w) ==
    Then(Pop(w.stack), LAMBDA rest :
        IF rest = <<>> THEN [w EXCEPT !.stack = rest]
        ELSE IF Top(rest).kind = "compiled"
        THEN Then(current_step(Top(rest)), LAMBDA cs :
                IF cs.step.k \in {"call", "llm"}
                THEN return_to_parent(w, rest, cs, ScriptCallResult(TRUE, FALSE, Top(w.stack).idx, "", ""))
                ELSE [w EXCEPT !.stack = SetTop(rest, cs.f)])
        ELSE [w EXCEPT !.stack = rest])

\* McpScriptExecutor._pop_frame
pop_frame(w) ==
    Then(Pop(w.stack), LAMBDA rest :
        IF rest = <<>> THEN [w EXCEPT !.stack = rest]
        ELSE IF Top(rest).kind = "compiled"
        THEN Then(current_step(Top(rest)), LAMBDA cs :
                IF cs.step.k = "call"
                THEN return_to_parent(w, rest, cs, ScriptCallResult(TRUE, FALSE, Top(w.stack).idx, "", ""))
                ELSE [w EXCEPT !.stack = SetTop(rest, cs.f)])
        ELSE [w EXCEPT !.stack = rest])

\* The error-handling Llm step synthesized after a soft failure.
error_step(f, step, res) ==
    [Llm("handle error") EXCEPT !.about = step.id, !.detail = res.code, !.oid = <<f.fid, f.pos, 0>>]

\* The executed-step log with one more entry.
logged(w, f, step, res, entry, exit) ==
    [w EXCEPT !.recent = Append(@, ExecutedStep(f.name, f.idx, step, res, entry, exit))]

\* The nested script always runs in the calling frame's directory.
nested_wd_inherited(step, f) == f.wd

\* The working directory of a nested script: the step's override or the
\* calling frame's.
nested_wd(step, f) == IF step.wd # "" THEN step.wd ELSE f.wd

\* McpScriptExecutor.run_until_llm, up to its return or to the next Auto step.
\* The failed load is logged and marks the frame as a fault.
script_load_failed_as_fault(w, f, step) ==
    Then(ScriptCallResult(FALSE, TRUE, 0, "", ""), LAMBDA res :
        [logged(w, f, step, res, FALSE, TRUE) EXCEPT
            !.stack = SetTop(@, [f EXCEPT !.exc = AutoException("script not found", "ScriptLoadError", step.id, "")])])

\* run_until_llm when load_script raises ScriptLoadError for a CallScript
\* step: the failure is logged as the step's result and fed to the frame.
script_load_failed(w, f, step) ==
    Then(ScriptCallResult(FALSE, TRUE, 0, "", ""), LAMBDA res :
        [logged(w, f, step, res, FALSE, TRUE) EXCEPT !.stack = SetTop(@, advance(f, res))])

RECURSIVE run_until_llm(_)
run_until_llm(w) ==
    IF w.stack = <<>> THEN build_result(w, NoPending)
    ELSE IF Top(w.stack).kind = "nl" THEN return_pending(w)
    ELSE IF Top(w.stack).exc # NoResult THEN return_pending(w)
    ELSE Then(current_step(Top(w.stack)), LAMBDA cs :
         Then([w EXCEPT !.stack = SetTop(@, cs.f)], LAMBDA w1 :
            IF cs.step.k = "none" THEN run_until_llm(pop_frame(w1))
            ELSE IF cs.step.k = "llm" THEN return_asserted_pending(w1)
            ELSE IF cs.step.k = "call"
            THEN Then(logged(w1, cs.f, cs.step, NoResult, TRUE, FALSE), LAMBDA w2 :
                 IF load_script(cs.step.name) = "error"
                 THEN run_until_llm(script_load_failed(w2, cs.f, cs.step))
                 ELSE IF load_script(cs.step.name) = "nl"
                 THEN return_asserted_pending([w2 EXCEPT
                          !.stack = Append(@, NLScriptFrame(FreshFid(w2.stack), cs.step.name, nested_wd(cs.step, cs.f)))])
                 ELSE run_until_llm([w2 EXCEPT
                          !.stack = Append(@, CompiledScriptFrame(FreshFid(w2.stack), cs.step.name, nested_wd(cs.step, cs.f)))]))
            ELSE await_auto(w1)))

\* The exception is logged but the frame is not marked with it.
auto_raised_unmarked(w, f, step, ae) ==
    return_pending(logged(w, f, step, ae, FALSE, FALSE))

\* run_until_llm when the Auto step's execution ends in an exception: the
\* frame is marked with it and the fallback is returned.
auto_raised(w, f, step, ae) ==
    return_pending([logged(w, f, step, ae, FALSE, FALSE) EXCEPT !.stack = SetTop(@, [f EXCEPT !.exc = ae])])

\* The failed step is passed to the Auto executor again.
soft_failure_retried(w, f, step, res) == await_auto(w)

\* The failed result is sent to the script as if the step had succeeded.
soft_failure_ignored(w, f, step, res) ==
    run_until_llm([w EXCEPT !.stack = SetTop(@, advance(f, res))])

\* run_until_llm when the Auto step reports success = False: the frame's
\* current step is replaced by the error-handling Llm step.
soft_failure(w, f, step, res) ==
    return_asserted_pending([w EXCEPT !.stack = SetTop(@, [f EXCEPT !.cur = error_step(f, step, res)])])

\* run_until_llm from the point where the Auto step `step` of frame f ended
\* with r, the outcome of _execute_auto_step.
auto_step_done(f, step, r) ==
    IF r.raise.type # ""
    THEN auto_raised(r.w, f, step, AutoException(r.raise.exc, r.raise.etype, step.id, r.raise.out))
    ELSE IF r.res.k = "exception"
    THEN auto_raised(r.w, f, step, r.res)
    ELSE Then(logged(r.w, f, step, r.res, FALSE, FALSE), LAMBDA w3 :
         IF ~r.res.success
         THEN soft_failure(w3, f, step, r.res)
         ELSE run_until_llm([w3 EXCEPT !.stack = SetTop(@, advance(f, r.res))]))

\* run_until_llm from the point where the awaited Auto step's execution
\* ends with outcome o.
resume_run_until_llm(w, o) ==
    Then(Top(w.stack), LAMBDA f :
        Then(execute_auto_step(w, f.cur, f, o), LAMBDA r : auto_step_done(f, f.cur, r)))

\* push_script that starts from an empty stack.
push_script_replacing(w, name, wd) ==
    IF load_script(name) = "nl"
    THEN [w EXCEPT !.stack = << NLScriptFrame(1, name, wd) >>]
    ELSE [w EXCEPT !.stack = << CompiledScriptFrame(1, name, wd) >>]

\* McpScriptExecutor.push_script (the script resolves)
push_script(w, name, wd) ==
    IF load_script(name) = "nl"
    THEN [w EXCEPT !.stack = Append(@, NLScriptFrame(FreshFid(w.stack), name, wd))]
    ELSE [w EXCEPT !.stack = Append(@, CompiledScriptFrame(FreshFid(w.stack), name, wd))]

\* What a method of the executor raised, w being the state it left.
Raised(w, exc) == [w |-> w, has_more |-> FALSE, raise |-> exc]

\* continue_after_llm that does not send the result to the script.
continue_after_llm_in_place(w, outputs) ==
    Then(pending(w.stack), LAMBDA r1 :
    IF r1.val.k \in {"nl", "fallback"}
    THEN Raised([w EXCEPT !.stack = r1.stack], "RuntimeError")
    ELSE Then(pending(r1.stack), LAMBDA r2 :
      IF r2.val.k # "llm"
      THEN Raised([w EXCEPT !.stack = r2.stack], "RuntimeError")
      ELSE [w |-> [w EXCEPT !.stack = r2.stack], has_more |-> TRUE, raise |-> ""]))

\* continue_after_llm that puts a failed Auto step back in place of the
\* error-handling step instead of sending the driver's result to the script.
continue_after_llm_retrying(w, outputs) ==
    Then(pending(w.stack), LAMBDA r1 :
    IF r1.val.k \in {"nl", "fallback"}
    THEN Raised([w EXCEPT !.stack = r1.stack], "RuntimeError")
    ELSE Then(pending(r1.stack), LAMBDA r2 :
      IF r2.val.k # "llm"
      THEN Raised([w EXCEPT !.stack = r2.stack], "RuntimeError")
      ELSE IF Top(r2.stack).cur.about # ""
      THEN [w |-> [w EXCEPT !.stack = SetTop(r2.stack,
                      [Top(r2.stack) EXCEPT !.cur = [Steps(Top(r2.stack).name)[Top(r2.stack).pos]
                                                        EXCEPT !.oid = <<Top(r2.stack).fid, Top(r2.stack).pos>>]])],
            has_more |-> TRUE, raise |-> ""]
      ELSE Then(current_step(advance(Top(r2.stack), LlmResult(outputs))), LAMBDA cs :
           [w |-> [w EXCEPT !.stack = SetTop(r2.stack, cs.f)],
            has_more |-> IF cs.step = NoStep THEN Len(r2.stack) > 1 ELSE TRUE,
            raise |-> ""])))

\* McpScriptExecutor.continue_after_llm
continue_after_llm(w, outputs) ==
    Then(pending(w.stack), LAMBDA r1 :
    IF r1.val.k \in {"nl", "fallback"}
    THEN Raised([w EXCEPT !.stack = r1.stack], "RuntimeError")
    ELSE Then(pending(r1.stack), LAMBDA r2 :
      IF r2.val.k # "llm"
      THEN Raised([w EXCEPT !.stack = r2.stack], "RuntimeError")
      ELSE Then(current_step(advance(Top(r2.stack), LlmResult(outputs))), LAMBDA cs :
           [w |-> [w EXCEPT !.stack = SetTop(r2.stack, cs.f)],
            has_more |-> IF cs.step = NoStep THEN Len(r2.stack) > 1 ELSE TRUE,
            raise |-> ""])))

\* The new top is advanced with call_result whatever state it is in.
pop_and_return_advancing(w, s, call_result) ==
    Then(Pop(s), LAMBDA rest :
        IF rest # <<>> /\ Top(rest).kind = "compiled"
        THEN Then(current_step(Top(rest)), LAMBDA cs : return_to_parent(w, rest, cs, call_result))
        ELSE [w EXCEPT !.stack = rest])

\* One branch of complete_nl_script: pop the top frame and, when the new top
\* is a compiled frame at a CallScript step, advance it with call_result.
pop_and_return(w, s, call_result) ==
    Then(Pop(s), LAMBDA rest :
        IF rest # <<>> /\ Top(rest).kind = "compiled"
        THEN Then(current_step(Top(rest)), LAMBDA cs :
                IF cs.step.k = "call"
                THEN return_to_parent(w, rest, cs, call_result)
                ELSE [w EXCEPT !.stack = SetTop(rest, cs.f)])
        ELSE [w EXCEPT !.stack = rest])

\* The completed fallback is reported to the calling script as a success.
fallback_result_as_success(failed) ==
    ScriptCallResult(TRUE, FALSE, failed.idx + 1, "", "")

\* The ScriptCallResult a completed fallback hands to the calling script.
fallback_result(failed) ==
    ScriptCallResult(FALSE, FALSE, failed.idx + 1, failed.exc.exc, failed.exc.etype)

\* complete_nl_script that leaves the frame it completes on the stack.
complete_nl_script_keeping(w) ==
    Then(pending(w.stack), LAMBDA r1 :
    IF r1.val.k = "nl"
    THEN [w |-> [w EXCEPT !.stack = r1.stack], raise |-> ""]
    ELSE Then(pending(r1.stack), LAMBDA r2 :
      IF r2.val.k = "fallback"
      THEN [w |-> [w EXCEPT !.stack = r2.stack], raise |-> ""]
      ELSE [w |-> [w EXCEPT !.stack = r2.stack], raise |-> "RuntimeError"]))

\* McpScriptExecutor.complete_nl_script
complete_nl_script(w) ==
    Then(pending(w.stack), LAMBDA r1 :
    IF r1.val.k = "nl"
    THEN [w |-> pop_and_return(w, r1.stack, ScriptCallResult(TRUE, FALSE, 1, "", "")), raise |-> ""]
    ELSE Then(pending(r1.stack), LAMBDA r2 :
      IF r2.val.k = "fallback"
      THEN [w |-> pop_and_return(w, r2.stack, fallback_result(Top(r2.stack))), raise |-> ""]
      ELSE [w |-> [w EXCEPT !.stack = r2.stack], raise |-> "RuntimeError"]))

\* ----------------------------------------------------------- tool surface
NoResponse == [kind |-> "", who |-> "", done |-> FALSE, steps |-> <<>>, pend |-> <<>>, depth |-> 0, path |-> <<>>]

\* The stack path as the text shows it: only when scripts are nested.
format_path(path) == IF Len(path) > 1 THEN path ELSE <<>>

\* Pending.format(): the fields of the pending value the text shows.
format(p) ==
    IF p.k = "llm"
    THEN << [k |-> "llm", ctx |-> p.ctx, name |-> p.name, idx |-> p.idx, path |-> format_path(p.path),
             text |-> <<p.step.id, p.step.about>>, detail |-> p.step.detail] >>
    ELSE IF p.k = "nl"
    THEN << [k |-> "nl", ctx |-> p.ctx, name |-> p.name, idx |-> 0, path |-> <<>>, text |-> <<>>, detail |-> 0] >>
    ELSE IF p.k = "fallback"
    THEN << [k |-> "fallback", ctx |-> p.ctx, name |-> p.name, idx |-> p.idx, path |-> format_path(p.path),
             text |-> <<p.exc.desc, p.exc.exc>>, detail |-> 0] >>
    ELSE << >>

\* One line group of _format_executed_steps.
format_executed_step(es) ==
    [prefix |-> <<es.script_name, es.step_index>>,
     tag |-> IF es.is_entry THEN "entry" ELSE IF es.is_exit THEN "exit" ELSE "auto",
     desc |-> es.step.id,
     ok |-> IF es.is_entry THEN FALSE ELSE es.result.success,
     out |-> IF es.is_entry \/ es.is_exit THEN "" ELSE es.result.out,
     exc |-> IF ~es.is_entry /\ ~es.is_exit /\ es.result.k = "exception" THEN es.result.exc ELSE ""]

format_executed_steps(steps) == [i \in 1..Len(steps) |-> format_executed_step(steps[i])]

\* _format_run_result / MekaraServer._handle_run_result
format_run_result(r) ==
    [NoResponse EXCEPT !.kind = "run", !.done = (r.pending.k = "none"),
                       !.steps = format_executed_steps(r.executed), !.pend = format(r.pending)]

Error(kind, who) == [NoResponse EXCEPT !.kind = kind, !.who = who]

NoRun == [ran |-> FALSE, executed |-> <<>>, pending |-> NoPending]

\* The tool call returns without having run the loop.
Reply(w, resp) == [w |-> w, response |-> resp, result |-> NoRun, await |-> FALSE]

\* `return self._handle_run_result(result)`, or the tool call suspended at
\* the await of an Auto step.
handle_run_result(r) ==
    IF r.await
    THEN [w |-> r.w, response |-> NoResponse, result |-> NoRun, await |-> TRUE]
    ELSE [w |-> r.w, response |-> format_run_result(r),
          result |-> [ran |-> TRUE, executed |-> r.executed, pending |-> r.pending], await |-> FALSE]

\* `result = await self.executor.run_until_llm()` and
\* `return self._handle_run_result(result)`
run_and_reply(w) == Then(run_until_llm(w), LAMBDA r : handle_run_result(r))

\* start that drops the running workflow before it resolves the name.
start_afresh(w, name, working_dir) ==
    IF load_script(name) = "error"
    THEN Reply([w EXCEPT !.stack = <<>>], Error("error: script not found", name))
    ELSE run_and_reply(push_script([w EXCEPT !.stack = <<>>], name, IF working_dir # "" THEN working_dir ELSE ExecutorDir))

\* MekaraServer.start
start(w, name, working_dir) ==
    IF load_script(name) = "error"
    THEN Reply(w, Error("error: script not found", name))
    ELSE run_and_reply(push_script(w, name, IF working_dir # "" THEN working_dir ELSE ExecutorDir))

\* MekaraServer.continue_compiled_script
continue_compiled_script(w, outputs) ==
    Then(pending(w.stack), LAMBDA r1 :
    IF r1.val.k = "nl"
    THEN Then(pending(r1.stack), LAMBDA r2 :
         Reply([w EXCEPT !.stack = r2.stack], Error("error: nl script pending", r2.val.name)))
    ELSE Then(pending(r1.stack), LAMBDA r2 :
      IF r2.val.k = "fallback"
      THEN Then(pending(r2.stack), LAMBDA r3 :
           Reply([w EXCEPT !.stack = r3.stack], Error("error: fallback pending", r3.val.name)))
      ELSE Then(pending(r2.stack), LAMBDA r3 :
        IF r3.val.k = "none"
        THEN Reply([w EXCEPT !.stack = r3.stack], Error("error: no llm step pending", ""))
        ELSE Then(continue_after_llm([w EXCEPT !.stack = r3.stack], outputs), LAMBDA c :
          IF c.raise # "" THEN Reply(c.w, Error("raised", c.raise))
          ELSE IF ~c.has_more
          THEN Reply(c.w, [NoResponse EXCEPT !.kind = "completed", !.done = TRUE])
          ELSE run_and_reply(c.w)))))

\* The executor's complete_nl_script, then the loop.
complete_and_run(w) ==
    Then(complete_nl_script(w), LAMBDA c :
        IF c.raise # "" THEN Reply(c.w, Error("raised", c.raise)) ELSE run_and_reply(c.w))

\* finish_nl_script that refuses only when nothing is pending.
finish_nl_script_unguarded(w) ==
    Then(pending(w.stack), LAMBDA r1 :
    IF r1.val.k = "none"
    THEN Reply([w EXCEPT !.stack = r1.stack], Error("error: no nl script pending", ""))
    ELSE complete_and_run([w EXCEPT !.stack = r1.stack]))

\* MekaraServer.finish_nl_script
finish_nl_script(w) ==
    Then(pending(w.stack), LAMBDA r1 :
    IF r1.val.k \notin {"nl", "fallback"}
    THEN Then(pending(r1.stack), LAMBDA r2 :
         IF r2.val.k = "llm"
         THEN Reply([w EXCEPT !.stack = r2.stack], Error("error: llm step pending", ""))
         ELSE Reply([w EXCEPT !.stack = r2.stack], Error("error: no nl script pending", "")))
    ELSE complete_and_run([w EXCEPT !.stack = r1.stack]))

\* MekaraServer.status
status(w) ==
    Then(pending(w.stack), LAMBDA r1 :
    IF r1.val.k # "none"
    THEN Then(pending(r1.stack), LAMBDA r2 :
         Reply([w EXCEPT !.stack = r2.stack], [NoResponse EXCEPT !.kind = "status", !.pend = format(r2.val)]))
    ELSE IF r1.stack = <<>>
    THEN Reply([w EXCEPT !.stack = r1.stack], Error("status: no script running", ""))
    ELSE Reply([w EXCEPT !.stack = r1.stack],
               [NoResponse EXCEPT !.kind = "status", !.who = r1.stack[1].name,
                                  !.depth = Len(r1.stack), !.path = get_stack_path(r1.stack)]))

\* ------------------------------------------------- VCR tool-surface adapter
\* VcrMekaraServer before the inner call: the input event is recorded.
vcr_input(w, e) == IF w.cas.mode = "record" THEN [w EXCEPT !.cas = record_event(@, e)] ELSE w

\* Replay mode after the inner call: the next event must be the recorded
\* output and equal the response.
verify_output(r) ==
    Then(consume_event(r.w.cas, "McpToolOutputEvent"), LAMBDA c :
        IF c.raise # "" THEN [r EXCEPT !.response = Error("raised", c.raise)]
        ELSE IF r.response # c.event.output
        THEN [r EXCEPT !.w.cas = c.cas, !.response = Error("raised", "output mismatch")]
        ELSE [r EXCEPT !.w.cas = c.cas])

\* VcrMekaraServer after the inner call returned r: the response is
\* recorded and the cassette saved, or the response is verified.
vcr_output(r, tool) ==
    IF r.await \/ r.response.kind = "raised" THEN r
    ELSE IF r.w.cas.mode = "record"
    THEN [r EXCEPT !.w.cas = save(record_event(@, McpToolOutputEvent(tool, r.response)))]
    ELSE verify_output(r)

\* VcrMekaraServer.start
vcr_start(w, name, working_dir) ==
    vcr_output(start(vcr_input(w, McpStartInputEvent(name, working_dir)), name, working_dir), "start")

\* VcrMekaraServer.continue_compiled_script
vcr_continue_compiled_script(w, outputs) ==
    vcr_output(continue_compiled_script(vcr_input(w, McpContinueCompiledScriptInputEvent(outputs)), outputs),
               "continue_compiled_script")

\* VcrMekaraServer.finish_nl_script
vcr_finish_nl_script(w) ==
    vcr_output(finish_nl_script(vcr_input(w, McpFinishNLScriptInputEvent)), "finish_nl_script")

\* VcrMekaraServer.status
vcr_status(w) == vcr_output(status(vcr_input(w, McpStatusInputEvent)), "status")

\* One turn of the loop of MekaraServerTestDriver.run on the event consumed.
driver_run(w, e) ==
    CASE e.class = "McpStartInputEvent" -> vcr_start(w, e.name, e.working_dir)
      [] e.class = "McpContinueCompiledScriptInputEvent" -> vcr_continue_compiled_script(w, e.outputs)
      [] e.class = "McpFinishNLScriptInputEvent" -> vcr_finish_nl_script(w)
      [] e.class = "McpStatusInputEvent" -> vcr_status(w)
      [] OTHER -> Reply(w, Error("raised", "unexpected event type"))

\* The tool a recorded input event calls.
event_tool(e) ==
    CASE e.class = "McpStartInputEvent" -> "start"
      [] e.class = "McpContinueCompiledScriptInputEvent" -> "continue_compiled_script"
      [] e.class = "McpFinishNLScriptInputEvent" -> "finish_nl_script"
      [] e.class = "McpStatusInputEvent" -> "status"
      [] OTHER -> ""

\* ------------------------------------------------------------- the driver
StartNames == {"parent", "child", "autoonly", "random", "nested", "broken", "imagine", "ghost"}

StartDirs == {""}

Outputs == {"o1"}

World == [stack |-> stack, recent |-> recent, asserts |-> asserts, cas |-> cas]

NoCall == [tool |-> "", name |-> "", wd |-> "", outputs |-> ""]

Call(tool, name, wd, outputs) == [tool |-> tool, name |-> name, wd |-> wd, outputs |-> outputs]

\* The state a tool call leaves when it returns or awaits an Auto step.
Returned(r) ==
    /\ stack' = r.w.stack
    /\ recent' = r.w.recent
    /\ cas' = r.w.cas
    /\ response' = r.response
    /\ result' = r.result
    /\ pc' = IF r.await THEN "auto" ELSE "idle"
    /\ reads' = <<>>
    /\ UNCHANGED asserts

Returns(r) == Returned(r) /\ UNCHANGED session

NoSession == [stacks |-> <<>>, calls |-> 0, diverged |-> FALSE]

Init ==
    /\ stack = <<>>
    /\ recent = <<>>
    /\ asserts \in BOOLEAN
    /\ call = NoCall
    /\ response = NoResponse
    /\ result = NoRun
    /\ reads = <<>>
    /\ cas = NoCassette
    /\ pc = "idle"
    /\ before = <<>>
    /\ session = NoSession

Start ==
    \E name \in StartNames, wd \in StartDirs :
        /\ pc = "idle"
        /\ Len(stack) + Height(name) <= MaxDepth
        /\ call' = Call("start", name, wd, "")
        /\ before' = stack
        /\ Returns(start(World, name, wd))

Continue ==
    \E outputs \in Outputs :
        /\ pc = "idle"
        /\ call' = Call("continue_compiled_script", "", "", outputs)
        /\ before' = stack
        /\ Returns(continue_compiled_script(World, outputs))

Finish ==
    /\ pc = "idle"
    /\ call' = Call("finish_nl_script", "", "", "")
    /\ before' = stack
    /\ Returns(finish_nl_script(World))

Status ==
    /\ pc = "idle"
    /\ call' = Call("status", "", "", "")
    /\ before' = stack
    /\ Returns(status(World))

\* The awaited Auto step ends and the tool call runs on.
AutoDone ==
    \E o \in Outcomes :
        /\ pc = "auto"
        /\ UNCHANGED <<call, before>>
        /\ Returns(Then(resume_run_until_llm(World, o), LAMBDA r : handle_run_result(r)))

Next == Start \/ Continue \/ Finish \/ Status \/ AutoDone

Spec == Init /\ [][Next]_vars

\* ------------------------------------------- the executor used directly
\* McpScriptExecutor driven through its own methods, as the executor tests
\* do: push_script, run_until_llm, continue_after_llm, complete_nl_script
\* and reads of the `pending` property.
PushNames == {"parent", "child", "autoonly", "random", "imagine"}

NoRead == [val |-> NoPending, changed |-> FALSE]

\* What a method of the executor leaves when it returns or awaits.
ExecReturns(w, resp, res, await) ==
    /\ stack' = w.stack
    /\ recent' = w.recent
    /\ cas' = w.cas
    /\ response' = resp
    /\ result' = res
    /\ pc' = IF await THEN "auto" ELSE "idle"
    /\ reads' = <<>>
    /\ UNCHANGED <<asserts, session>>

\* `return result` of run_until_llm, or the suspension at its await.
RunReturns(r) ==
    IF r.await
    THEN ExecReturns(r.w, NoResponse, NoRun, TRUE)
    ELSE ExecReturns(r.w, NoResponse, [ran |-> TRUE, executed |-> r.executed, pending |-> r.pending], FALSE)

PushScript ==
    \E name \in PushNames :
        /\ pc = "idle"
        /\ Len(stack) + Height(name) <= MaxDepth
        /\ call' = Call("push_script", name, "", "")
        /\ before' = stack
        /\ ExecReturns(push_script(World, name, ExecutorDir), NoResponse, NoRun, FALSE)

RunUntilLlm ==
    /\ pc = "idle"
    /\ call' = Call("run_until_llm", "", "", "")
    /\ before' = stack
    /\ RunReturns(run_until_llm(World))

RunAutoDone ==
    \E o \in Outcomes :
        /\ pc = "auto"
        /\ UNCHANGED <<call, before>>
        /\ RunReturns(resume_run_until_llm(World, o))

ContinueAfterLlm ==
    \E outputs \in Outputs :
        /\ pc = "idle"
        /\ call' = Call("continue_after_llm", "", "", outputs)
        /\ before' = stack
        /\ \E c \in {continue_after_llm(World, outputs)} :
               ExecReturns(c.w,
                   IF c.raise # "" THEN Error("raised", c.raise)
                   ELSE [NoResponse EXCEPT !.kind = "has_more", !.done = ~c.has_more],
                   NoRun, FALSE)

CompleteNlScript ==
    /\ pc = "idle"
    /\ call' = Call("complete_nl_script", "", "", "")
    /\ before' = stack
    /\ \E c \in {complete_nl_script(World)} :
           ExecReturns(c.w, IF c.raise # "" THEN Error("raised", c.raise) ELSE NoResponse, NoRun, FALSE)

\* `executor.pending` read by the caller, at most twice in a row.
ReadPending ==
    /\ pc = "idle"
    /\ Len(reads) < 2
    /\ \E r \in {pending(stack)} :
           /\ reads' = Append(reads, [val |-> r.val, changed |-> r.stack # stack])
           /\ stack' = r.stack
    /\ call' = Call("pending", "", "", "")
    /\ UNCHANGED <<recent, asserts, response, result, cas, pc, before, session>>

NextExec == PushScript \/ RunUntilLlm \/ RunAutoDone \/ ContinueAfterLlm \/ CompleteNlScript \/ ReadPending

SpecExec == Init /\ [][NextExec]_vars

\* ------------------------------------------------- record and replay
\* A session recorded through VcrMekaraServer with a record-mode cassette,
\* as run_server and the VCR tests set it up, then replayed from the saved
\* file by MekaraServerTestDriver.
VcrNames == {"random", "nested", "imagine", "ghost"}

\* How the cassette file replayed may differ from the one the present code
\* would save: recorded before a command, a working directory or the steps
\* of a script changed, cut short, or with another response.
Divergences == {"none", "inputs", "working_dir", "missing", "truncated", "output"}

\* Index of the first auto_step entry of the file, 0 if there is none.
FirstAuto(file) ==
    IF \E i \in 1..Len(file) : file[i].type = "auto_step"
    THEN CHOOSE i \in 1..Len(file) :
            /\ file[i].type = "auto_step"
            /\ \A j \in 1..(i - 1) : file[j].type # "auto_step"
    ELSE 0

\* Index of the last mcp_tool_output entry of the file, 0 if there is none.
LastOutput(file) ==
    IF \E i \in 1..Len(file) : file[i].type = "mcp_tool_output"
    THEN CHOOSE i \in 1..Len(file) :
            /\ file[i].type = "mcp_tool_output"
            /\ \A j \in (i + 1)..Len(file) : file[j].type # "mcp_tool_output"
    ELSE 0

Diverged(file, d) ==
    CASE d = "inputs" /\ FirstAuto(file) > 0 -> [file EXCEPT ![FirstAuto(file)].inputs.action = "old command"]
      [] d = "working_dir" /\ FirstAuto(file) > 0 -> [file EXCEPT ![FirstAuto(file)].working_dir = "/old"]
      [] d = "missing" /\ FirstAuto(file) > 0 ->
            SubSeq(file, 1, FirstAuto(file) - 1) \o SubSeq(file, FirstAuto(file) + 1, Len(file))
      [] d = "truncated" ->
            SubSeq(file, 1, IF FirstAuto(file) > 0 THEN FirstAuto(file) - 1 ELSE Len(file) - 1)
      [] d = "output" /\ LastOutput(file) > 0 -> [file EXCEPT ![LastOutput(file)].output.who = "old"]
      [] OTHER -> file

\* The state a call through VcrMekaraServer leaves when it returns or
\* awaits an Auto step.
VcrReturns(r) ==
    /\ Returned(r)
    /\ session' = IF r.await THEN session
                  ELSE IF r.w.cas.mode = "record" THEN [session EXCEPT !.stacks = Append(@, r.w.stack)]
                  ELSE [session EXCEPT !.calls = @ + 1]

Recording == cas.mode = "record" /\ pc = "idle" /\ Len(session.stacks) < MaxCalls

InitVcr ==
    /\ stack = <<>>
    /\ recent = <<>>
    /\ asserts \in BOOLEAN
    /\ call = NoCall
    /\ response = NoResponse
    /\ result = NoRun
    /\ reads = <<>>
    /\ cas = RecordCassette
    /\ pc = "idle"
    /\ before = <<>>
    /\ session = NoSession

VcrStart ==
    \E name \in VcrNames, wd \in StartDirs :
        /\ Recording
        /\ Len(stack) + Height(name) <= MaxDepth
        /\ call' = Call("start", name, wd, "")
        /\ before' = stack
        /\ VcrReturns(vcr_start(World, name, wd))

VcrContinue ==
    \E outputs \in Outputs :
        /\ Recording
        /\ call' = Call("continue_compiled_script", "", "", outputs)
        /\ before' = stack
        /\ VcrReturns(vcr_continue_compiled_script(World, outputs))

VcrFinish ==
    /\ Recording
    /\ call' = Call("finish_nl_script", "", "", "")
    /\ before' = stack
    /\ VcrReturns(vcr_finish_nl_script(World))

VcrStatus ==
    /\ Recording
    /\ call' = Call("status", "", "", "")
    /\ before' = stack
    /\ VcrReturns(vcr_status(World))

\* A recorded command may also print an output that ends with an empty
\* line (stdout is kept as it is).
VcrOutcomes == Outcomes \cup {"blank"}

\* The awaited Auto step ends, executed or replayed, and the call runs on.
VcrAutoDone ==
    \E o \in VcrOutcomes :
        /\ pc = "auto"
        /\ UNCHANGED <<call, before>>
        /\ VcrReturns(vcr_output(Then(resume_run_until_llm(World, o), LAMBDA r : handle_run_result(r)), call.tool))

\* The recording process ends; a replay cassette is loaded from the file
\* and a fresh server is built on it (MekaraServerTestDriver.__init__).
Load ==
    \E d \in Divergences :
        /\ cas.mode = "record" /\ pc = "idle" /\ cas.saved > 0
        /\ ~scan_raises(cas.text)
        /\ stack' = <<>>
        /\ recent' = <<>>
        /\ cas' = ReplayCassette(Diverged(cas.file, d))
        /\ call' = NoCall
        /\ response' = NoResponse
        /\ result' = NoRun
        /\ reads' = <<>>
        /\ before' = <<>>
        /\ session' = [session EXCEPT !.diverged = (Diverged(cas.file, d) # cas.file)]
        /\ UNCHANGED <<asserts, pc>>

\* MekaraServerTestDriver.run: the next event is consumed and the tool it
\* records is called with the recorded arguments.
Replay ==
    /\ cas.mode = "replay" /\ pc = "idle" /\ response.kind # "raised"
    /\ has_remaining_events(cas)
    /\ \E c \in {consume_event(cas, "")} :
           /\ call' = Call(event_tool(c.event), c.event.name, c.event.working_dir, c.event.outputs)
           /\ before' = stack
           /\ VcrReturns(driver_run([World EXCEPT !.cas = c.cas], c.event))

NextVcr == VcrStart \/ VcrContinue \/ VcrFinish \/ VcrStatus \/ VcrAutoDone \/ Load \/ Replay

SpecVcr == InitVcr /\ [][NextVcr]_vars

\* ------------------------------------------- the cassette used directly
\* A VCRCassette driven through its own methods, as the cassette tests do:
\* record_event, save, consume_event, has_remaining_events and
\* replay_position in whatever mode it is in, and the file it saved opened
\* for replay.
CasEvents ==
    { McpStartInputEvent("random", ""),
      McpStatusInputEvent,
      McpToolOutputEvent("status", Error("status: no script running", "")),
      McpToolOutputEvent("continue_compiled_script", [NoResponse EXCEPT !.kind = "completed", !.done = TRUE]),
      AutoStepEvent(ExecutorDir, from_step(Auto("shell", "shuf")), result_data(ShellResult(TRUE, 0, "out"))),
      AutoStepEvent(ExecutorDir, from_step(Auto("shell", "shuf")), result_data(ShellResult(TRUE, 0, BlankEnded))) }

EventTypes == {"", "McpStartInputEvent", "McpToolOutputEvent", "AutoStepEvent"}

\* What a method of the cassette returned.
Returned_(v) == [NoResponse EXCEPT !.kind = "returned", !.pend = << v >>]

\* The state a method of the cassette leaves.
CasReturns(c, resp) ==
    /\ cas' = c
    /\ response' = resp
    /\ UNCHANGED <<stack, recent, asserts, result, reads, pc, before, session>>

CasRecordEvent ==
    \E e \in CasEvents :
        /\ Len(cas.events) < MaxEvents
        /\ call' = Call("record_event", e.class, "", "")
        /\ CasReturns(record_event(cas, e),
                      IF cas.mode # "record" THEN Error("raised", "replay mode") ELSE Returned_(<<>>))

CasSave ==
    /\ call' = Call("save", "", "", "")
    /\ CasReturns(save(cas), Returned_(<<>>))

CasConsumeEvent ==
    \E class \in EventTypes :
        /\ call' = Call("consume_event", class, "", "")
        /\ \E c \in {consume_event(cas, class)} :
               CasReturns(c.cas, IF c.raise # "" THEN Error("raised", c.raise) ELSE Returned_(c.event))

CasHasRemainingEvents ==
    /\ call' = Call("has_remaining_events", "", "", "")
    /\ CasReturns(cas, IF cas.mode # "replay" THEN Error("raised", "record mode")
                       ELSE Returned_(has_remaining_events(cas)))

CasReplayPosition ==
    /\ call' = Call("replay_position", "", "", "")
    /\ CasReturns(cas, IF cas.mode # "replay" THEN Error("raised", "record mode") ELSE Returned_(cas.cursor))

\* VCRCassette(path, mode="replay") on the file the recording saved: the
\* constructor raises and there is no new cassette, or the events read from
\* the text of the file are loaded.
CasOpenReplay ==
    /\ cas.mode = "record" /\ cas.text # <<>>
    /\ call' = Call("VCRCassette", "replay", "", "")
    /\ IF scan_raises(cas.text) \/ load_raises(Data(List(load_events(cas.text))))
       THEN CasReturns(cas, Error("raised", "yaml"))
       ELSE CasReturns(ReplayCassette(load_events(cas.text)), Returned_(<<>>))

\* Cassette files written by hand: a well-formed one, one whose auto_step
\* carries the `index` key of old cassettes, and files with one defect each.
StatusInput == to_dict(McpStatusInputEvent)

ShufStep == to_dict(AutoStepEvent(ExecutorDir, from_step(Auto("shell", "shuf")), result_data(ShellResult(TRUE, 0, "out"))))

Files ==
    {"well formed", "index", "no initial_state", "no working_dir", "events not a list", "no events",
     "event without type", "unknown event type", "unknown tool", "unknown result type",
     "result without type", "unexpected key", "unexpected key in input", "unexpected key in result"}

safe_load(path) ==
    CASE path = "well formed" -> Data(List(<< StatusInput, ShufStep >>))
      [] path = "index" ->
            Data(List(<< [type |-> "auto_step", index |-> 0, working_dir |-> ShufStep.working_dir,
                          inputs |-> ShufStep.inputs, result |-> ShufStep.result] >>))
      [] path = "no initial_state" -> [events |-> List(<< StatusInput >>)]
      [] path = "no working_dir" -> [initial_state |-> <<>>, events |-> List(<< StatusInput >>)]
      [] path = "events not a list" -> Data(NotAList)
      [] path = "no events" -> [initial_state |-> [working_dir |-> ExecutorDir]]
      [] path = "event without type" -> Data(List(<< StatusInput, [tool |-> "status", input |-> <<>>] >>))
      [] path = "unknown event type" -> Data(List(<< [type |-> "llm_step", tool |-> "status", input |-> <<>>] >>))
      [] path = "unknown tool" -> Data(List(<< [type |-> "mcp_tool_input", tool |-> "stop", input |-> <<>>] >>))
      [] path = "unknown result type" ->
            Data(List(<< [ShufStep EXCEPT !.result =
                             [type |-> "timeout", success |-> FALSE, exception |-> "timed out",
                              step_description |-> "shuf", output |-> ""]] >>))
      [] path = "result without type" ->
            Data(List(<< [ShufStep EXCEPT !.result = [success |-> TRUE, exit_code |-> 0, output |-> "out"]] >>))
      [] path = "unexpected key" ->
            Data(List(<< StatusInput, [type |-> "mcp_tool_input", tool |-> "status", input |-> <<>>, note |-> ""] >>))
      [] path = "unexpected key in input" ->
            Data(List(<< [type |-> "mcp_tool_input", tool |-> "status", input |-> [name |-> "random"]] >>))
      [] OTHER ->
            Data(List(<< [ShufStep EXCEPT !.result =
                             [type |-> "shell", success |-> TRUE, exit_code |-> 0, output |-> "out", value |-> ""]] >>))

\* VCRCassette(path, mode="replay") on one of these files before anything
\* is recorded: the constructor raises and there is no new cassette, or the
\* file's events are loaded.
CasOpenFile ==
    \E path \in Files :
        /\ cas = RecordCassette
        /\ call' = Call("VCRCassette", path, "", "")
        /\ IF load_raises(safe_load(path))
           THEN CasReturns(cas, Error("raised", "ValueError"))
           ELSE CasReturns(ReplayCassette(safe_load(path).events.items), Returned_(<<>>))

NextCas ==
    \/ CasRecordEvent \/ CasSave \/ CasConsumeEvent \/ CasHasRemainingEvents \/ CasReplayPosition
    \/ CasOpenReplay \/ CasOpenFile

SpecCas == InitVcr /\ [][NextCas]_vars

\* ------------------------------------------------- interleaved tool calls
\* The tools are coroutines registered with FastMCP and no lock guards
\* them: a request that arrives while a call awaits an Auto step is served
\* at that await. pc "auto2": two Auto steps are being awaited. pc "raced":
\* the arriving call returned and left a stack or log that differs from the
\* one the awaiting call left. The model follows an interleaving up to
\* these two points.
Tools == {"start", "continue_compiled_script", "finish_nl_script", "status"}

\* The tool a request names, run on the server's state.
call_tool(w, c) ==
    CASE c.tool = "start" -> start(w, c.name, c.wd)
      [] c.tool = "continue_compiled_script" -> continue_compiled_script(w, c.outputs)
      [] c.tool = "finish_nl_script" -> finish_nl_script(w)
      [] OTHER -> status(w)

\* A request arrives while a call awaits its Auto step and runs until it
\* returns or awaits an Auto step itself.
Arrive ==
    \E tool \in Tools, name \in StartNames, wd \in StartDirs, outputs \in Outputs :
        /\ pc = "auto"
        /\ tool = "start" => Len(stack) + Height(name) <= MaxDepth
        /\ \E r \in {call_tool(World, Call(tool, name, wd, outputs))} :
               /\ stack' = r.w.stack
               /\ recent' = r.w.recent
               /\ cas' = r.w.cas
               /\ response' = r.response
               /\ result' = r.result
               /\ pc' = IF r.await THEN "auto2"
                        ELSE IF r.w.stack = stack /\ r.w.recent = recent THEN "auto" ELSE "raced"
        /\ UNCHANGED <<asserts, call, reads, before, session>>

NextConc == Start \/ Continue \/ Finish \/ Status \/ AutoDone \/ Arrive

SpecConc == Init /\ [][NextConc]_vars

\* ------------------------------------------- run_until_llm pass by pass
\* The executor driven through its methods, with run_until_llm taking one
\* pass of its `while self.stack:` loop at a time.
LoopNames == {"parent", "autoonly", "random", "nested", "broken", "imagine"}

\* A pass that ends in `continue`: the loop goes on from w.
Again(w) == [w |-> w, executed |-> <<>>, pending |-> NoPending, await |-> FALSE, again |-> TRUE]

\* A pass that ends in `return` or is suspended at the await.
Left(r) == [w |-> r.w, executed |-> r.executed, pending |-> r.pending, await |-> r.await, again |-> FALSE]

\* A pass that finds the top frame exhausted and goes on without popping it.
loop_iteration_spinning(w) ==
    IF w.stack = <<>> THEN Left(build_result(w, NoPending))
    ELSE IF Top(w.stack).kind = "nl" THEN Left(return_pending(w))
    ELSE IF Top(w.stack).exc # NoResult THEN Left(return_pending(w))
    ELSE Then(current_step(Top(w.stack)), LAMBDA cs :
         Then([w EXCEPT !.stack = SetTop(@, cs.f)], LAMBDA w1 :
            IF cs.step.k = "none" THEN Again(w1)
            ELSE IF cs.step.k = "llm" THEN Left(return_asserted_pending(w1))
            ELSE IF cs.step.k = "call"
            THEN Then(logged(w1, cs.f, cs.step, NoResult, TRUE, FALSE), LAMBDA w2 :
                 IF load_script(cs.step.name) = "error"
                 THEN Again(script_load_failed(w2, cs.f, cs.step))
                 ELSE IF load_script(cs.step.name) = "nl"
                 THEN Left(return_asserted_pending([w2 EXCEPT
                          !.stack = Append(@, NLScriptFrame(FreshFid(w2.stack), cs.step.name, nested_wd(cs.step, cs.f)))]))
                 ELSE Again([w2 EXCEPT
                          !.stack = Append(@, CompiledScriptFrame(FreshFid(w2.stack), cs.step.name, nested_wd(cs.step, cs.f)))]))
            ELSE Left(await_auto(w1))))

\* One pass of the loop of run_until_llm, from the test of `self.stack` to
\* a `continue`, a `return` or the await of an Auto step.
loop_iteration(w) ==
    IF w.stack = <<>> THEN Left(build_result(w, NoPending))
    ELSE IF Top(w.stack).kind = "nl" THEN Left(return_pending(w))
    ELSE IF Top(w.stack).exc # NoResult THEN Left(return_pending(w))
    ELSE Then(current_step(Top(w.stack)), LAMBDA cs :
         Then([w EXCEPT !.stack = SetTop(@, cs.f)], LAMBDA w1 :
            IF cs.step.k = "none" THEN Again(pop_frame(w1))
            ELSE IF cs.step.k = "llm" THEN Left(return_asserted_pending(w1))
            ELSE IF cs.step.k = "call"
            THEN Then(logged(w1, cs.f, cs.step, NoResult, TRUE, FALSE), LAMBDA w2 :
                 IF load_script(cs.step.name) = "error"
                 THEN Again(script_load_failed(w2, cs.f, cs.step))
                 ELSE IF load_script(cs.step.name) = "nl"
                 THEN Left(return_asserted_pending([w2 EXCEPT
                          !.stack = Append(@, NLScriptFrame(FreshFid(w2.stack), cs.step.name, nested_wd(cs.step, cs.f)))]))
                 ELSE Again([w2 EXCEPT
                          !.stack = Append(@, CompiledScriptFrame(FreshFid(w2.stack), cs.step.name, nested_wd(cs.step, cs.f)))]))
            ELSE Left(await_auto(w1))))

\* The rest of the pass once the Auto step `step` of frame f ended with r.
auto_step_once(f, step, r) ==
    IF r.raise.type # ""
    THEN Left(auto_raised(r.w, f, step, AutoException(r.raise.exc, r.raise.etype, step.id, r.raise.out)))
    ELSE IF r.res.k = "exception"
    THEN Left(auto_raised(r.w, f, step, r.res))
    ELSE Then(logged(r.w, f, step, r.res, FALSE, FALSE), LAMBDA w3 :
         IF ~r.res.success
         THEN Left(soft_failure(w3, f, step, r.res))
         ELSE Again([w3 EXCEPT !.stack = SetTop(@, advance(f, r.res))]))

\* The pass resumed when the awaited Auto step's execution ends with o.
resume_iteration(w, o) ==
    Then(Top(w.stack), LAMBDA f :
        Then(execute_auto_step(w, f.cur, f, o), LAMBDA r : auto_step_once(f, f.cur, r)))

\* What a pass leaves: the loop at its head again, or run_until_llm
\* returned or suspended.
PassReturns(r) ==
    IF r.again
    THEN /\ stack' = r.w.stack
         /\ recent' = r.w.recent
         /\ cas' = r.w.cas
         /\ pc' = "loop"
         /\ UNCHANGED <<response, result, reads, asserts, session>>
    ELSE RunReturns(r)

LoopPushScript ==
    \E name \in LoopNames :
        /\ pc = "idle"
        /\ Len(stack) + Height(name) <= MaxDepth
        /\ stack # <<>> => pending(stack).val.k # "none"
        /\ call' = Call("push_script", name, "", "")
        /\ before' = stack
        /\ ExecReturns(push_script(World, name, ExecutorDir), NoResponse, NoRun, FALSE)

\* run_until_llm is called: control is at the head of its loop.
LoopEnter ==
    /\ pc = "idle"
    /\ call' = Call("run_until_llm", "", "", "")
    /\ before' = stack
    /\ pc' = "loop"
    /\ response' = NoResponse
    /\ result' = NoRun
    /\ reads' = <<>>
    /\ UNCHANGED <<stack, recent, cas, asserts, session>>

LoopPass ==
    /\ pc = "loop"
    /\ UNCHANGED <<call, before>>
    /\ \E r \in {loop_iteration(World)} : PassReturns(r)

LoopAutoDone ==
    \E o \in Outcomes :
        /\ pc = "auto"
        /\ UNCHANGED <<call, before>>
        /\ \E r \in {resume_iteration(World, o)} : PassReturns(r)

NextLoop == LoopPushScript \/ LoopEnter \/ LoopPass \/ LoopAutoDone \/ ContinueAfterLlm \/ CompleteNlScript

\* The coroutine runs on whenever it can take a pass, and every Auto
\* execution ends.
SpecLoop == Init /\ [][NextLoop]_vars /\ WF_vars(LoopPass) /\ WF_vars(LoopAutoDone)

\* ---------------------------------------------------- cooperative driver
\* The tool surface driven as the protocol asks: the driver starts a
\* script when nothing is pending and answers what the last response
\* presented, an Llm step with continue_compiled_script, an NL script or
\* a fallback with finish_nl_script.
Presented == IF pc = "idle" /\ response.pend # <<>> THEN response.pend[1].k ELSE "none"

DriverStart ==
    /\ Presented = "none"
    /\ Start

DriverContinue ==
    /\ Presented = "llm"
    /\ Continue

DriverFinish ==
    /\ Presented \in {"nl", "fallback"}
    /\ Finish

NextDriver == DriverStart \/ DriverContinue \/ DriverFinish \/ AutoDone

\* The driver answers every response that presents something, and every
\* Auto execution ends.
SpecDriver ==
    Init /\ [][NextDriver]_vars /\ WF_vars(DriverContinue) /\ WF_vars(DriverFinish) /\ WF_vars(AutoDone)

\* ------------------------------------------------------------------ claims
\* The pending value the executor derives in the current state.
Pending == pending(stack).val

\* The last of the steps a returned call executed.
LastExecuted == result.executed[Len(result.executed)]

\* Every Auto step and script call the returned call executed succeeded.
AutosOk == \A i \in 1..Len(result.executed) : result.executed[i].is_entry \/ result.executed[i].result.success

\* C1: whenever a tool call has returned, the derived pending value is None
\* if and only if the frame stack is empty.
C1_PendingNoneIffStackEmpty ==
    pc = "idle" => ((Pending.k = "none") <=> (stack = <<>>))

\* C2: two reads of `pending` in a row, with no executor operation between
\* them, return equal values, and neither read changes a frame field.
C2_PendingIsPure ==
    /\ \A i \in 1..Len(reads) : ~reads[i].changed
    /\ Len(reads) = 2 => reads[1].val = reads[2].val

\* C3: a script of successful Auto steps only, started while a script is
\* suspended at an Llm step, leaves the stack as it was when it returns: the
\* pending step is the very step object the suspended script was on and its
\* step index is unchanged.
C3_NestedResume ==
    (/\ pc = "idle" /\ call.tool = "start" /\ call.name = "autoonly"
     /\ result.ran /\ AutosOk
     /\ before # <<>> /\ pending(before).val.k = "llm")
    => /\ stack = before
       /\ result.pending.k = "llm"
       /\ result.pending.step = Top(before).cur
       /\ result.pending.step.oid = pending(before).val.step.oid
       /\ result.pending.idx = Top(before).idx

C3_Witness ==
    /\ pc = "idle" /\ call.tool = "start" /\ call.name = "autoonly"
    /\ result.ran /\ AutosOk /\ Len(result.executed) = 1
    /\ Len(before) = 1 /\ pending(before).val.k = "llm"
    /\ Len(stack) = 1 /\ Pending.k = "llm"

\* Positions of the two Llm steps of the children the claim is about.
FirstLlm(name) == IF name = "child" THEN 1 ELSE 2

SecondLlm(name) == IF name = "child" THEN 2 ELSE 4

\* The frame is suspended at the n-th step of its script, an Llm step.
SuspendedAt(f, n) ==
    /\ f.kind = "compiled" /\ f.exc = NoResult
    /\ f.pos = n /\ f.cur.k = "llm" /\ f.cur.about = ""

\* The frame awaits the script its CallScript step pushed, or is suspended.
Waiting(s) ==
    \/ Top(s).kind = "compiled" /\ Top(s).exc = NoResult /\ Top(s).cur.k = "call"
    \/ pending(s).val.k # "none"

\* C4: a child with two Llm steps above a parent suspends at the first, then
\* after continue at the second at the same depth with the frames below
\* untouched, and only after the next continue, with the child popped, does
\* a step of the parent become pending: the step the parent was suspended
\* on, or the step after its CallScript.
C4_NestedSuspensionOrder ==
    (/\ pc = "idle" /\ call.tool = "continue_compiled_script" /\ AutosOk
     /\ Len(before) >= 2 /\ Top(before).name \in {"child", "random"}
     /\ Waiting(Pop(before)))
    => LET c == Top(before)
           d == Len(before)
           p == before[d - 1]
       IN  /\ SuspendedAt(c, FirstLlm(c.name)) =>
                 /\ Len(stack) = d
                 /\ Pop(stack) = Pop(before)
                 /\ Top(stack).fid = c.fid
                 /\ SuspendedAt(Top(stack), SecondLlm(c.name))
                 /\ result.pending.k = "llm"
                 /\ result.pending.step = Top(stack).cur
                 /\ result.pending.step.oid = <<c.fid, SecondLlm(c.name)>>
           /\ SuspendedAt(c, SecondLlm(c.name)) =>
                 /\ Len(stack) = d - 1
                 /\ Pop(stack) = SubSeq(before, 1, d - 2)
                 /\ IF p.kind = "compiled" /\ p.cur.k = "call"
                    THEN /\ Top(stack).fid = p.fid
                         /\ Top(stack).pos = p.pos + 1
                         /\ result.pending.k = "llm"
                         /\ result.pending.step.oid = <<p.fid, p.pos + 1>>
                    ELSE /\ Top(stack) = p
                         /\ result.pending = pending(Pop(before)).val

\* the child was called by a CallScript step, its second Llm step was
\* answered and the step after the CallScript is pending
C4_Witness ==
    /\ pc = "idle" /\ call.tool = "continue_compiled_script" /\ AutosOk
    /\ Len(before) = 2 /\ before[1].cur.k = "call"
    /\ SuspendedAt(Top(before), SecondLlm("random")) /\ Top(before).name = "random"
    /\ Len(stack) = 1 /\ Pending.k = "llm" /\ Top(stack).pos = before[1].pos + 1

\* The frame is suspended at the error-handling step of a failed Auto step.
SoftFailed(f) == f.kind = "compiled" /\ f.cur.k = "llm" /\ f.cur.about # ""

\* A call returned right after an Auto step reported success = False.
SoftFailureReturned ==
    /\ pc = "idle" /\ result.ran /\ result.executed # <<>>
    /\ LastExecuted.step.k = "auto"
    /\ LastExecuted.result.k # "exception" /\ ~LastExecuted.result.success

\* C5: after an Auto step reports success = False the call returns the
\* error-handling Llm step as pending on the same frame, which is still on
\* top, has no fault and stands at the failed step's index; the frame stays
\* so until a continue call issued while it is on top.
C5_SoftEscalation ==
    /\ [](SoftFailureReturned =>
            /\ result.pending.k = "llm"
            /\ result.pending.step = Top(stack).cur
            /\ SoftFailed(Top(stack))
            /\ Top(stack).cur.about = LastExecuted.step.id
            /\ Top(stack).fid = LastExecuted.step.oid[1]
            /\ Top(stack).pos = LastExecuted.step.oid[2]
            /\ Top(stack).exc = NoResult
            /\ Top(stack).idx = LastExecuted.step_index
            /\ result.pending.idx = LastExecuted.step_index)
    /\ [][\A i \in 1..Len(stack) :
            SoftFailed(stack[i]) =>
                \/ Len(stack') >= i /\ stack'[i] = stack[i]
                \/ i = Len(stack) /\ pc = "idle" /\ call'.tool = "continue_compiled_script"]_vars

\* the failed step was not the first of its script, and a script was then
\* started and finished on top of the frame
C5_Witness ==
    /\ pc = "idle" /\ call.tool = "start" /\ Len(before) = 1 /\ stack = before
    /\ SoftFailed(Top(stack)) /\ Top(stack).idx > 0 /\ Top(stack).exc = NoResult

\* A call returned right after an Auto step raised.
FaultReturned ==
    /\ pc = "idle" /\ result.ran /\ result.executed # <<>>
    /\ LastExecuted.step.k = "auto" /\ LastExecuted.result.k = "exception"

\* C6: an Auto step that raises sets the frame's fault; while a faulted
\* frame is on top the pending value is the fallback; a faulted frame is
\* left exactly as it is by every operation except a finish_nl_script
\* issued while it is the top frame.
C6_HardEscalation ==
    /\ [](FaultReturned => Top(stack).exc = LastExecuted.result /\ result.pending.k = "fallback")
    /\ [](stack # <<>> /\ Top(stack).exc # NoResult =>
            /\ Pending.k = "fallback"
            /\ Pending.idx = Top(stack).idx
            /\ Pending.exc = Top(stack).exc)
    /\ [][\A i \in 1..Len(stack) :
            stack[i].exc # NoResult =>
                \/ Len(stack') >= i /\ stack'[i] = stack[i]
                \/ i = Len(stack) /\ pc = "idle" /\ call'.tool = "finish_nl_script"]_vars

\* a continue call was refused on a frame faulted after one of its Llm steps
C6_Witness ==
    /\ pc = "idle" /\ call.tool = "continue_compiled_script"
    /\ stack # <<>> /\ Top(stack).exc # NoResult /\ Top(stack).idx > 0
    /\ stack = before

\* C7: the fallback a tool call returns when an Auto step raised carries
\* the NL source of the faulted script.
C7_FallbackCarriesNlSource ==
    FaultReturned =>
        /\ result.pending.ctx = load_nl_source(Top(stack))
        /\ response.pend[1].ctx = load_nl_source(Top(stack))

ErrorResponses == {"error: nl script pending", "error: fallback pending", "error: no llm step pending",
                   "error: llm step pending", "error: no nl script pending"}

\* The call about to be issued does not fit the pending value.
Misuse(tool) ==
    \/ tool = "continue_compiled_script" /\ Pending.k \in {"none", "nl", "fallback"}
    \/ tool = "finish_nl_script" /\ Pending.k \in {"none", "llm"}

\* C8: a continue_compiled_script with no Llm step pending and a
\* finish_nl_script with no NL script or fallback pending return an error
\* response and leave the stack, with every field of every frame, and the
\* executed-step log as they were.
C8_MisuseRejected ==
    [][(pc = "idle" /\ Misuse(call'.tool)) =>
            /\ response'.kind \in ErrorResponses
            /\ pc' = "idle"
            /\ stack' = stack
            /\ recent' = recent]_vars

\* a misplaced call was refused while two frames were on the stack
C8_Witness ==
    /\ pc = "idle" /\ response.kind \in ErrorResponses
    /\ Len(stack) = 2 /\ stack = before
    /\ call.tool \in {"continue_compiled_script", "finish_nl_script"}

\* The exceptions replay verification raises.
ReplayErrors == {"ScriptExecutionError", "ValueError"}

\* C9: in replay, a verification failure of an Auto step (inputs or working
\* directory differing from the recorded event, an event of the wrong type,
\* no event left) is never the result of an executed step, the fault of a
\* frame or the exception of the pending value: it leaves the call as an
\* error.
C9_ReplayFailureIsFatal ==
    (cas.mode = "replay" /\ pc = "idle") =>
        /\ \A i \in 1..Len(result.executed) : result.executed[i].result.etype \notin ReplayErrors
        /\ \A i \in 1..Len(stack) : stack[i].exc.etype \notin ReplayErrors
        /\ Pending.exc.etype \notin ReplayErrors

\* C10: replaying the cassette file a recorded session saved, every call
\* returns the recorded response without an error, leaves the stack the
\* recorded call left, and when no event remains every recorded call has
\* been replayed.
C10_CassetteRoundTrip ==
    (cas.mode = "replay" /\ ~session.diverged /\ pc = "idle" /\ session.calls > 0) =>
        /\ response.kind # "raised"
        /\ cas.events[cas.cursor].class = "McpToolOutputEvent"
        /\ cas.events[cas.cursor].output = response
        /\ session.calls <= Len(session.stacks)
        /\ stack = session.stacks[session.calls]
        /\ ~has_remaining_events(cas) => session.calls = Len(session.stacks)

\* Two texts are equal line by line.
SameText(a, b) == Len(a) = Len(b) /\ \A i \in 1..Len(a) : SameLine(a[i], b[i])

\* The events the cassette held at its last save, as dicts.
SavedEvents == [i \in 1..cas.saved |-> to_dict(cas.events[i])]

\* C11: once an append-mode cassette has saved, the text of its file is the
\* text one save of all the events recorded up to the last save writes.
C11_IncrementalSave ==
    (cas.mode = "record" /\ cas.text # <<>>) => SameText(cas.text, dump(SavedEvents))

\* The tool call as it runs on when the real command would end with o.
AfterAuto(o) == vcr_output(Then(resume_run_until_llm(World, o), LAMBDA r : handle_run_result(r)), call.tool)

\* The steps logged by the call in progress or just returned.
Logged == IF pc = "idle" THEN result.executed ELSE recent

\* C12: in replay the outcome of an Auto step does not depend on what the
\* real command would do now: whatever that is, the step leaves the same
\* stack, log, cassette position, pending value and response; and when the
\* step matches its recording the logged result is the recorded one.
C12_ReplayDeterminism ==
    [][(cas.mode = "replay" /\ pc = "auto") =>
          /\ \A o \in Outcomes :
                /\ stack' = AfterAuto(o).w.stack
                /\ recent' = AfterAuto(o).w.recent
                /\ cas' = AfterAuto(o).w.cas
                /\ result' = AfterAuto(o).result
                /\ response' = AfterAuto(o).response
          /\ ~session.diverged =>
                \E i \in 1..Len(Logged') :
                    /\ Logged'[i].step = Top(stack).cur
                    /\ Logged'[i].result = reconstruct_auto_step_result(cas.events[cas.cursor + 1])]_vars

\* a replayed call returned an Llm step after a replayed shell command
C12_Witness ==
    /\ cas.mode = "replay" /\ pc = "idle" /\ ~session.diverged
    /\ result.ran /\ result.pending.k = "llm"
    /\ \E i \in 1..Len(result.executed) :
           result.executed[i].step.k = "auto" /\ result.executed[i].result.k = "shell"

\* The event a replayed Auto step finds at the cursor.
NextEvent == IF has_remaining_events(cas) THEN cas.events[cas.cursor + 1] ELSE NoEvent

\* The awaited Auto step replayed by the adapter alone.
Replayed == replay_auto_step(World, Top(stack).cur, Top(stack).wd)

\* The event at the cursor is the recording of the awaited Auto step.
Matches ==
    /\ NextEvent.class = "AutoStepEvent"
    /\ NextEvent.inputs = from_step(Top(stack).cur)
    /\ NextEvent.working_dir = Top(stack).wd

\* C13: in consume mode an execute call of the Auto boundary adapter
\* succeeds exactly when the event at the cursor records this step with the
\* same inputs and working directory; it then consumes that one event and
\* returns the recorded result with every recorded field; and a recorded
\* exception leaves the stack exactly as the recorded call left it.
C13_ConsumeModeAdapter ==
    [][(cas.mode = "replay" /\ pc = "auto") =>
          /\ (Replayed.raise = NoRaise) <=> Matches
          /\ Matches =>
                /\ Replayed.w.cas.cursor = cas.cursor + 1
                /\ result_data(Replayed.res) = NextEvent.result
          /\ (Matches /\ ~session.diverged /\ NextEvent.result.k = "exception") =>
                /\ pc' = "idle"
                /\ Top(stack').exc # NoResult
                /\ stack' = session.stacks[session'.calls]]_vars

\* The event at the cursor is of the type the call asks for.
Expected == call'.name = "" \/ NextEvent.class = call'.name

\* C14: on a consume-mode cassette a consume_event call that returns gives
\* the event at the cursor and moves the cursor forward by exactly one; it
\* raises exactly when no event is left or the event at the cursor is not of
\* the expected type, and then the cursor stays; no operation moves the
\* cursor back or changes the events, and 0 <= cursor <= number of events.
C14_ConsumeInOrder ==
    /\ [](cas.cursor \in 0..Len(cas.events))
    /\ [][cas.mode = "replay" =>
            /\ cas'.events = cas.events
            /\ cas'.cursor >= cas.cursor
            /\ call'.tool = "consume_event" =>
                  /\ (response'.kind = "returned") <=> (has_remaining_events(cas) /\ Expected)
                  /\ response'.kind = "returned" =>
                        response'.pend[1] = NextEvent /\ cas'.cursor = cas.cursor + 1
                  /\ response'.kind # "returned" =>
                        response'.kind = "raised" /\ cas'.cursor = cas.cursor]_vars

\* events were consumed, the last call met an event of another type
C14_Witness ==
    /\ cas.mode = "replay" /\ cas.cursor >= 2 /\ has_remaining_events(cas)
    /\ call.tool = "consume_event" /\ response.kind = "raised" /\ response.who = "event mismatch"

ReplayOnly == {"consume_event", "has_remaining_events", "replay_position"}

\* C15: no operation of a cassette changes its mode; on a consume-mode
\* cassette record_event raises and no operation changes the events; on an
\* append-mode cassette consume_event, has_remaining_events and
\* replay_position raise and no operation moves the cursor.
C15_ModeExclusive ==
    [][call'.tool # "VCRCassette" =>
          /\ cas'.mode = cas.mode
          /\ cas.mode = "replay" =>
                /\ cas'.events = cas.events
                /\ call'.tool = "record_event" => response'.kind = "raised"
          /\ cas.mode = "record" =>
                /\ cas'.cursor = cas.cursor
                /\ call'.tool \in ReplayOnly => response'.kind = "raised"]_vars

\* record_event was called on a consume-mode cassette that is not full
C15_Witness ==
    /\ cas.mode = "replay" /\ Len(cas.events) \in 1..(MaxEvents - 1)
    /\ call.tool = "record_event" /\ response.kind = "raised"

Inbound == {"McpStartInputEvent", "McpContinueCompiledScriptInputEvent",
            "McpFinishNLScriptInputEvent", "McpStatusInputEvent"}

\* Reading the first n events as (inbound boundary* outbound)*: "closed"
\* after an outbound event, "open" inside a call, "bad" when they do not fit.
RECURSIVE Shape(_, _)
Shape(events, n) ==
    IF n = 0 THEN "closed"
    ELSE IF Shape(events, n - 1) = "bad" THEN "bad"
    ELSE IF events[n].class \in Inbound
    THEN (IF Shape(events, n - 1) = "closed" THEN "open" ELSE "bad")
    ELSE IF events[n].class = "AutoStepEvent"
    THEN (IF Shape(events, n - 1) = "open" THEN "open" ELSE "bad")
    ELSE (IF Shape(events, n - 1) = "open" THEN "closed" ELSE "bad")

\* The inbound event of the call c.
InboundOf(c) ==
    CASE c.tool = "start" -> McpStartInputEvent(c.name, c.wd)
      [] c.tool = "continue_compiled_script" -> McpContinueCompiledScriptInputEvent(c.outputs)
      [] c.tool = "finish_nl_script" -> McpFinishNLScriptInputEvent
      [] OTHER -> McpStatusInputEvent

\* The index of the last inbound event.
LastInbound == CHOOSE i \in 1..Len(cas.events) :
                   /\ cas.events[i].class \in Inbound
                   /\ \A j \in (i + 1)..Len(cas.events) : cas.events[j].class \notin Inbound

\* The Auto steps the current call has executed, in execution order.
AutoSteps == SelectSeq(Logged, LAMBDA x : x.step.k = "auto")

\* The boundary events recorded since the last inbound event.
Boundary == SelectSeq(SubSeq(cas.events, LastInbound + 1, Len(cas.events)),
                      LAMBDA e : e.class = "AutoStepEvent")

\* C16: in append mode the event log reads as (inbound boundary* outbound)*
\* after every completed call and as that followed by inbound boundary*
\* inside a call; the last inbound event carries the arguments of the
\* call, the boundary events after it are the Auto steps the call executed,
\* in order, with their inputs and results, and after the call the last
\* event is the outbound event carrying its response.
C16_RecordedEventOrder ==
    (cas.mode = "record" /\ call # NoCall) =>
        /\ Shape(cas.events, Len(cas.events)) = (IF pc = "idle" THEN "closed" ELSE "open")
        /\ cas.events[LastInbound] = InboundOf(call)
        /\ Len(Boundary) = Len(AutoSteps)
        /\ \A i \in 1..Len(Boundary) :
               /\ Boundary[i].inputs = from_step(AutoSteps[i].step)
               /\ Boundary[i].result = result_data(AutoSteps[i].result)
        /\ pc = "idle" => cas.events[Len(cas.events)] = McpToolOutputEvent(call.tool, response)

\* a recorded call executed two Auto steps and returned
C16_Witness ==
    /\ cas.mode = "record" /\ pc = "idle" /\ Len(session.stacks) >= 2
    /\ Len(AutoSteps) >= 2 /\ Len(Boundary) >= 2

\* The world a step leaves.
WorldAfter == [World EXCEPT !.stack = stack']

\* C17: a status call leaves the frame stack, with every frame's step
\* index, current step, fault and has_shown_nl_source flag, as it was, so
\* that each start, continue_compiled_script and finish_nl_script call
\* answers after it as it would have answered before it.
C17_StatusIsReadOnly ==
    [][call'.tool = "status" =>
          /\ stack' = stack
          /\ recent' = recent
          /\ finish_nl_script(WorldAfter) = finish_nl_script(World)
          /\ \A outputs \in Outputs :
                continue_compiled_script(WorldAfter, outputs) = continue_compiled_script(World, outputs)
          /\ \A name \in StartNames, wd \in StartDirs :
                start(WorldAfter, name, wd) = start(World, name, wd)]_vars

\* status answered while a nested script was suspended on a fault
C17_Witness ==
    /\ call.tool = "status" /\ response.kind = "status" /\ pc = "idle"
    /\ Len(stack) >= 2 /\ Top(stack).exc # NoResult /\ before = stack

\* The i-th logged entry is the exit of a CallScript step whose script
\* cannot be resolved.
Unresolved(i) ==
    /\ Logged[i].step.k = "call" /\ Logged[i].is_exit
    /\ load_script(Logged[i].step.name) = "error"

\* C18: a CallScript step naming a script that cannot be resolved gets the
\* result ScriptCallResult(success = false, aborted, steps_executed = 0);
\* the run goes on in the same frame with the step that follows it, one step
\* index further: no frame is pushed, nothing is pending and no fault is set.
C18_UnresolvedCallScript ==
    \A i \in 1..Len(Logged) : Unresolved(i) =>
        /\ Logged[i].result = ScriptCallResult(FALSE, TRUE, 0, "", "")
        /\ i > 1 /\ Logged[i - 1].is_entry /\ Logged[i - 1].step = Logged[i].step
        /\ IF i < Len(Logged)
           THEN /\ Logged[i + 1].script_name = Logged[i].script_name
                /\ Logged[i + 1].step_index = Logged[i].step_index + 1
                /\ Logged[i + 1].step.oid = << Logged[i].step.oid[1], Logged[i].step.oid[2] + 1 >>
           ELSE /\ pc = "auto" /\ Len(stack) = Len(before) + 1
                /\ Top(stack).fid = Logged[i].step.oid[1]
                /\ Top(stack).idx = Logged[i].step_index + 1
                /\ Top(stack).cur.oid = << Logged[i].step.oid[1], Logged[i].step.oid[2] + 1 >>
                /\ Top(stack).fed = Logged[i].result
                /\ Top(stack).exc = NoResult

\* the run went past an unresolvable CallScript and awaits the next step
C18_Witness ==
    /\ pc = "auto" /\ Len(Logged) = 2 /\ Unresolved(2) /\ Top(stack).cur.k = "auto"

\* C19: a start call naming a script that cannot be resolved returns an
\* error response and leaves the stack, every frame and the log as they
\* were: nothing is pushed and nothing runs.
C19_StartUnresolved ==
    [][(call'.tool = "start" /\ load_script(call'.name) = "error") =>
          /\ response'.kind = "error: script not found" /\ response'.who = call'.name
          /\ stack' = stack /\ recent' = recent
          /\ pc' = "idle" /\ ~result'.ran]_vars

\* start of an unknown script was refused while a workflow was suspended
C19_Witness ==
    /\ call.tool = "start" /\ load_script(call.name) = "error"
    /\ response.kind = "error: script not found"
    /\ stack # <<>> /\ before = stack /\ Pending.k = "llm"

\* The top frame is a compiled frame suspended at the last step of its
\* script, an Llm step, above another frame: the continue call that follows
\* exhausts it and, more frames being left, calls run_until_llm.
AtLastLlm ==
    /\ pc = "idle" /\ Len(stack) >= 2
    /\ Top(stack).kind = "compiled" /\ Top(stack).exc = NoResult
    /\ Top(stack).cur.k = "llm" /\ Top(stack).pos = Len(Steps(Top(stack).name))

\* The frame under the top one stands on the CallScript step that invoked it.
ParentAtCall ==
    /\ stack[Len(stack) - 1].kind = "compiled"
    /\ stack[Len(stack) - 1].cur.k = "call"

\* The result the parent is fed when the top frame is popped.
PoppedResult == ScriptCallResult(TRUE, FALSE, Top(stack).idx, "", "")

\* The exit entry logged for the parent's CallScript step.
ParentExit ==
    ExecutedStep(stack[Len(stack) - 1].name, stack[Len(stack) - 1].idx, stack[Len(stack) - 1].cur,
                 PoppedResult, FALSE, TRUE)

\* The loop running on from the stack s with the log so far.
RunsOnFrom(s, log) == run_until_llm([World EXCEPT !.stack = s, !.recent = log])

\* The step leaves what the run r leaves.
Leaves(r) ==
    /\ stack' = r.w.stack
    /\ pc' = (IF r.await THEN "auto" ELSE "idle")
    /\ Logged' = (IF r.await THEN r.w.recent ELSE r.executed)

\* C20: when run_until_llm finds the top compiled frame exhausted, the frame
\* is popped; a compiled parent standing on the CallScript step that invoked it
\* gets the exit entry of that step with ScriptCallResult(success = true,
\* steps_executed = the popped frame's step index) and is advanced by one
\* step with that result; any other new top is left as it was; and the run
\* goes on from the new top.
C20_ExhaustedFramePopped ==
    [][(AtLastLlm /\ call'.tool = "continue_compiled_script") =>
          IF ParentAtCall
          THEN /\ Logged'[1] = ParentExit
               /\ Leaves(RunsOnFrom(SetTop(Pop(stack), advance(stack[Len(stack) - 1], PoppedResult)),
                                    << ParentExit >>))
          ELSE Leaves(RunsOnFrom(Pop(stack), <<>>))]_vars

\* the last Llm step of a called script was completed and its caller, fed
\* the step index 3 of the popped frame, went on to its next Llm step
C20_Witness ==
    /\ pc = "idle" /\ call.tool = "continue_compiled_script"
    /\ Len(before) = 2 /\ Len(stack) = 1 /\ result.ran
    /\ Len(result.executed) = 1 /\ result.executed[1].is_exit
    /\ result.executed[1].result.success /\ result.executed[1].result.steps = 3
    /\ Pending.k = "llm" /\ stack[1].idx = before[1].idx + 1

\* The result finish_nl_script feeds the calling script: a success for an
\* NL script, a failure carrying the fault's exception for a fallback.
FinishResult ==
    IF Pending.k = "nl" THEN ScriptCallResult(TRUE, FALSE, 1, "", "")
    ELSE ScriptCallResult(FALSE, FALSE, Top(stack).idx + 1, Top(stack).exc.exc, Top(stack).exc.etype)

\* The exit entry logged for the parent's CallScript step on finish.
FinishExit ==
    ExecutedStep(stack[Len(stack) - 1].name, stack[Len(stack) - 1].idx, stack[Len(stack) - 1].cur,
                 FinishResult, FALSE, TRUE)

\* C21: finish_nl_script with an NL script or a fallback pending pops the
\* top frame only; a compiled parent standing on the CallScript step is
\* fed the result (success for an NL script, failure with the fault's
\* exception for a fallback), advanced by one step and not faulted; any
\* other new top is left as it was; and run_until_llm runs from the new top.
C21_FinishPopsTop ==
    [][(pc = "idle" /\ call'.tool = "finish_nl_script" /\ Pending.k \in {"nl", "fallback"}) =>
          IF Len(stack) >= 2 /\ ParentAtCall
          THEN /\ Logged'[1] = FinishExit
               /\ Leaves(RunsOnFrom(SetTop(Pop(stack), advance(stack[Len(stack) - 1], FinishResult)),
                                    << FinishExit >>))
               /\ \A i \in 1..Len(stack') :
                      stack'[i].fid = stack[Len(stack) - 1].fid =>
                          stack'[i].exc = NoResult /\ stack'[i].idx = stack[Len(stack) - 1].idx + 1
          ELSE Leaves(RunsOnFrom(Pop(stack), <<>>))]_vars

\* a fallback of a called script was finished and its caller, fed the
\* failure with the exception, went on
C21_Witness ==
    /\ call.tool = "finish_nl_script" /\ Len(before) = 2 /\ Top(before).exc # NoResult
    /\ Len(Logged) >= 1 /\ Logged[1].is_exit /\ ~Logged[1].result.success
    /\ Logged[1].result.exc = Top(before).exc.exc /\ Logged[1].result.exc # ""
    /\ stack # <<>> /\ stack[1].fid = before[1].fid /\ stack[1].idx = before[1].idx + 1

\* The Auto step the frame stands on was executed and failed: the frame is
\* faulted, or its current step is the error-handling Llm step put in the
\* place of the Auto step its script yielded last.
Failed(f) ==
    /\ f.kind = "compiled"
    /\ \/ f.exc # NoResult
       \/ /\ f.cur.k = "llm" /\ f.pos \in 1..Len(Steps(f.name))
          /\ Steps(f.name)[f.pos].k = "auto"

\* The i-th frame of s is the one whose Auto step is being executed.
InFlight(s, p, i) == p = "auto" /\ i = Len(s)

\* C22: no frame goes back in its script, and a step that is being
\* executed or has failed is not passed to the Auto executor again: as long
\* as the frame stands on the same step it stays failed and is not awaited.
C22_NoRetry ==
    [][\A i \in 1..Len(stack) :
          (i <= Len(stack') /\ stack'[i].fid = stack[i].fid /\ stack'[i].name = stack[i].name) =>
              /\ stack'[i].pos >= stack[i].pos
              /\ (stack'[i].pos = stack[i].pos /\ (Failed(stack[i]) \/ InFlight(stack, pc, i))) =>
                    Failed(stack'[i]) /\ ~InFlight(stack', pc', i)]_vars

\* after a soft failure the frame was continued and went on to a later step
C22_Witness ==
    /\ call.tool = "continue_compiled_script" /\ before # <<>>
    /\ Failed(Top(before)) /\ Top(before).exc = NoResult
    /\ Len(stack) >= Len(before) /\ stack[Len(before)].fid = Top(before).fid
    /\ stack[Len(before)].pos > Top(before).pos

\* The frame above the i-th one stays on the stack through the step.
StaysCovered(i) ==
    /\ i + 1 <= Len(stack')
    /\ stack'[i + 1].fid = stack[i + 1].fid /\ stack'[i + 1].name = stack[i + 1].name
    /\ stack'[i + 1].pos >= stack[i + 1].pos

\* C23: a start call issued while a workflow is suspended keeps every
\* frame of the stack in place and unchanged, root script included, and
\* puts the frame of the started script on top of them (unless that script
\* ran to its end within the call); and in every step a frame that stays
\* covered by the frame above it keeps its step index, current step and
\* fault.
C23_StartPushesOnTop ==
    [][/\ (call'.tool = "start" /\ pc = "idle" /\ load_script(call'.name) # "error"
           /\ Pending.k # "none") =>
              /\ Len(stack') >= Len(stack)
              /\ SubSeq(stack', 1, Len(stack)) = stack
              /\ stack'[1].name = stack[1].name
              /\ IF Len(stack') > Len(stack)
                 THEN stack'[Len(stack) + 1].name = call'.name
                 ELSE pc' = "idle" /\ result'.pending = Pending
       /\ \A i \in 1..(Len(stack) - 1) : StaysCovered(i) => stack'[i] = stack[i]]_vars

\* a script was started over a suspended one and is suspended above it
C23_Witness ==
    /\ call.tool = "start" /\ pc = "idle" /\ before # <<>> /\ pending(before).val.k = "llm"
    /\ Len(stack) = Len(before) + 1 /\ SubSeq(stack, 1, Len(before)) = before
    /\ Top(stack).name = call.name /\ Pending.k = "llm"

\* The i-th frame stays on the stack through the step.
SameFrame(i) ==
    /\ i <= Len(stack')
    /\ stack'[i].fid = stack[i].fid /\ stack'[i].name = stack[i].name
    /\ stack'[i].pos >= stack[i].pos

\* The entry the step logs for the Auto step that was being executed.
AutoEntry == Logged'[Len(recent) + 1]

\* C24: a frame above a frame standing on a CallScript step has the
\* step's working_dir override, or the calling frame's directory when
\* there is none; a frame's directory never changes while it is on the
\* stack; and the Auto step being executed runs in the directory of the
\* frame that yielded it.
C24_WorkingDirPerFrame ==
    /\ [](\A i \in 2..Len(stack) :
             (stack[i - 1].kind = "compiled" /\ stack[i - 1].cur.k = "call") =>
                 stack[i].wd = (IF stack[i - 1].cur.wd # "" THEN stack[i - 1].cur.wd ELSE stack[i - 1].wd))
    /\ [][/\ \A i \in 1..Len(stack) : (SameFrame(i) => stack'[i].wd = stack[i].wd)
           /\ pc = "auto" =>
                 /\ AutoEntry.step = Top(stack).cur
                 /\ (AutoEntry.result.k = "shell" /\ AutoEntry.result.success) =>
                        AutoEntry.result.out = stdout(Top(stack).wd)]_vars

\* a called script ran a command in its override directory and, after it
\* returned, its caller ran a command in its own directory
C24_Witness ==
    \E i, j \in 1..Len(Logged) :
        /\ i < j
        /\ Logged[i].script_name = "double" /\ Logged[i].result.k = "shell"
        /\ Logged[i].result.success /\ Logged[i].result.out = stdout("/tmp")
        /\ Logged[j].script_name = "nested" /\ Logged[j].result.k = "shell"
        /\ Logged[j].result.success /\ Logged[j].result.out = stdout(ExecutorDir)

\* C25: at most one Auto step is being executed at any moment, and no
\* tool call arriving while an Auto step is awaited changes the stack or
\* the log before the awaiting call has returned.
C25_SingleDrivingLoop == pc \in {"idle", "auto"}

\* The text a is the beginning of the text b.
IsPrefix(a, b) == Len(a) <= Len(b) /\ \A i \in 1..Len(a) : SameLine(a[i], b[i])

\* C26: a save leaves the text the file held as the beginning of the text
\* it holds afterwards, adds exactly the events recorded since the previous
\* save, leaves the text as it is when there are none, and on a
\* consume-mode cassette writes nothing.
C26_SaveAppendOnly ==
    [][call'.tool = "save" =>
          /\ IsPrefix(cas.text, cas'.text)
          /\ cas.mode = "record" =>
                /\ cas'.saved = Len(cas.events)
                /\ cas.text # <<>> =>
                      Len(cas'.text) = Len(cas.text)
                          + Len(event_lines(new_events(cas, cas.saved), 1, FALSE))
          /\ cas.mode = "replay" => cas' = cas]_vars

\* The keys an event record of each kind is written with, `index` being the
\* key old cassettes carry on an auto_step.
EventKeys(d) ==
    IF d.type = "auto_step" THEN {"type", "working_dir", "inputs", "result", "index"}
    ELSE IF d.type = "mcp_tool_input" THEN {"type", "tool", "input"}
    ELSE {"type", "tool", "output"}

\* An event record with one of the defects the claim lists.
MalformedEvent(d) ==
    \/ "type" \notin DOMAIN d
    \/ d.type \notin {"mcp_tool_input", "mcp_tool_output", "auto_step"}
    \/ d.type = "mcp_tool_input" /\ d.tool \notin MCP_INPUT_TYPES
    \/ d.type = "auto_step" /\ "type" \in DOMAIN d.result
          /\ d.result.type \notin {"shell", "call", "exception"}
    \/ DOMAIN d \ EventKeys(d) # {}

\* A file with one of the defects the claim lists.
Malformed(data) ==
    \/ "initial_state" \notin DOMAIN data
    \/ "working_dir" \notin DOMAIN data.initial_state
    \/ ~data.events.list
    \/ \E i \in 1..Len(data.events.items) : MalformedEvent(data.events.items[i])

\* C27: opening in consume mode a file that lacks initial_state or its
\* working_dir, whose events are no list, or one of whose event records has
\* no type, an unknown type, tool or result type or an unexpected key,
\* raises and loads nothing.
C27_MalformedFails ==
    [][(call'.tool = "VCRCassette" /\ call'.name \in Files /\ "events" \in DOMAIN safe_load(call'.name)
           /\ Malformed(safe_load(call'.name)))
          => response'.kind = "raised" /\ cas' = cas]_vars

\* The events the file of the cassette holds: those of its last save.
OnFile == SubSeq(cas.events, 1, cas.saved)

\* C28: every recorded event is the event event_from_dict reads from its
\* to_dict(), and the file an append-mode cassette saved opens in consume
\* mode with the events it was saved with, in their order, all of them
\* counted as saved.
C28_RoundTrip ==
    /\ [](\A i \in 1..Len(cas.events) :
             ~event_raises(to_dict(cas.events[i])) /\ event_from_dict(to_dict(cas.events[i])) = cas.events[i])
    /\ [][(call'.tool = "VCRCassette" /\ call'.name = "replay") =>
             /\ response'.kind = "returned"
             /\ cas'.mode = "replay"
             /\ cas'.events = OnFile
             /\ cas'.saved = Len(OnFile)]_vars

\* The response reports that all steps completed.
AllStepsCompleted == response.kind \in {"run", "completed"} /\ response.done

\* C29: when start, continue_compiled_script or finish_nl_script returns a
\* response reporting that all steps completed, the frame stack is empty,
\* and a status call that follows reports that no script is running.
C29_CompletedMeansEmpty ==
    /\ []((pc = "idle" /\ AllStepsCompleted) => stack = <<>>)
    /\ [][(pc = "idle" /\ AllStepsCompleted /\ call'.tool = "status")
             => response'.kind = "status: no script running"]_vars

\* run_until_llm returned a PendingLlmStep to the driver.
LlmReturned == pc = "idle" /\ result.ran /\ result.pending.k = "llm"

\* The call pushed a frame of the script of the top frame.
Pushed ==
    \E j \in 1..Len(result.executed) :
        result.executed[j].is_entry /\ result.executed[j].step.name = Top(stack).name

\* A PendingLlmStep was returned for the top frame before: for an earlier
\* Llm step of its script, or because the frame was on an Llm step (one of
\* its script or the report of a failed command) when the call was made.
ReturnedBefore ==
    \/ \E q \in 1..(Top(stack).pos - 1) : Steps(Top(stack).name)[q].k = "llm"
    \/ /\ Len(before) >= Len(stack) /\ ~Pushed
       /\ before[Len(stack)].fid = Top(stack).fid /\ before[Len(stack)].name = Top(stack).name
       /\ before[Len(stack)].cur.k = "llm"

\* C30: the first PendingLlmStep run_until_llm returns for a compiled frame
\* carries the NL source of its script as context, every later one for the
\* same frame an empty context.
C30_ContextShownOnce ==
    LlmReturned =>
        result.pending.ctx = IF ReturnedBefore THEN <<>> ELSE load_nl_source(Top(stack))

\* The top frame stands on the error-handling step of a failed Auto step
\* that is not the last step of its script.
SoftFailedMidway ==
    /\ stack # <<>> /\ SoftFailed(Top(stack))
    /\ Top(stack).pos < Len(Steps(Top(stack).name))

\* The step that follows the step the frame stands on in its script.
FollowingStep(f) == [Steps(f.name)[f.pos + 1] EXCEPT !.oid = <<f.fid, f.pos + 1>>]

Yielded(f) ==
    IF f.kind # "compiled" \/ f.pos = 0 THEN 0
    ELSE IF f.pos <= Len(Steps(f.name)) THEN f.pos - 1
    ELSE Len(Steps(f.name)) - 1

\* C32: the step index of a frame is the number of its advances that
\* yielded a further step: 0 for a new frame and after the lazy pull of the
\* first step, one more for each such advance, the same after the advance
\* that exhausts the script, with a fault set and with the error-handling
\* step in place; it never decreases.
C32_StepIndexMonotone ==
    /\ [](\A i \in 1..Len(stack) :
             /\ stack[i].idx = Yielded(stack[i])
             /\ stack[i].kind = "compiled" =>
                   /\ current_step(stack[i]).f.idx = stack[i].idx
                   /\ stack[i].pos >= 1 =>
                         advance(stack[i], NoResult).idx =
                             stack[i].idx + (IF stack[i].pos < Len(Steps(stack[i].name)) THEN 1 ELSE 0))
    /\ [][\A i \in 1..Len(stack) : SameFrame(i) => stack'[i].idx >= stack[i].idx]_vars

\* the fourth step of a script failed softly after three advances
C32_Witness ==
    /\ stack # <<>> /\ Top(stack).name = "nested" /\ SoftFailed(Top(stack)) /\ Top(stack).idx = 3


\* The i-th frame is left as it is by the step, but for the mark that its
\* pending value has been read.
Untouched(i) == stack'[i] = [stack[i] EXCEPT !.shown = stack'[i].shown]

\* C33: no frame with a live fault is advanced (it stays as it is until it
\* is popped), and neither is an instructional frame; a frame is advanced
\* only after its first step was pulled (every compiled frame on the stack
\* has pulled its first step, and a frame that was sent a result stands
\* past it); and nothing is popped from an empty stack: a call other than
\* start that finds the stack empty leaves it empty, and frames leave the
\* stack from the top only.
C33_NoIllegalAdvanceOrPop ==
    /\ [](\A i \in 1..Len(stack) :
             /\ (stack[i].kind = "compiled" => stack[i].pos >= 1)
             /\ (stack[i].kind = "nl" => stack[i].pos = 0 /\ stack[i].fed = NoResult /\ stack[i].exc = NoResult)
             /\ (stack[i].fed # NoResult => stack[i].pos >= 2)
             /\ (stack[i].exc # NoResult => stack[i].cur.k = "auto"))
    /\ [][/\ (\A i \in 1..Len(stack) :
                 (SameFrame(i) /\ (stack[i].exc # NoResult \/ stack[i].kind = "nl")) => Untouched(i))
           /\ ((stack = <<>> /\ call'.tool # "start") =>
                 stack' = <<>> /\ (call'.tool = "status" \/ response'.kind \in ErrorResponses))
           /\ (\A i \in 1..Len(stack) :
                 (i <= Len(stack') /\ stack'[i].fid = stack[i].fid) =>
                     \A j \in 1..(i - 1) : stack'[j].fid = stack[j].fid)]_vars

\* a script started on top of a faulted frame ran to its end and was
\* popped, and the faulted frame beneath it is as it was
C33_Witness ==
    /\ pc = "idle" /\ call.tool = "start" /\ call.name = "autoonly"
    /\ before # <<>> /\ Top(before).exc # NoResult
    /\ Len(result.executed) >= 1 /\ result.executed[1].script_name = "autoonly"
    /\ Len(stack) = Len(before) /\ Top(stack).exc = Top(before).exc
    /\ Top(stack).pos = Top(before).pos /\ Top(stack).cur = Top(before).cur

\* The i-th frame stands on a CallScript step and the frame above it is
\* the one that step pushed.
Calls(s, i) ==
    /\ s[i].kind = "compiled" /\ s[i].cur.k = "call"
    /\ i < Len(s) /\ s[i + 1].name = s[i].cur.name

\* The frame above the i-th one leaves the stack in the step.
ChildLeaves(i) == Len(stack') = i \/ (Len(stack') > i /\ stack'[i + 1].fid # stack[i + 1].fid)

\* The entries logged by the step.
NewlyLogged == { j \in 1..Len(Logged') : j > Len(recent) }

\* C34: a frame standing on a CallScript step always has above it the
\* frame of the script the step names, so the top frame never stands on
\* one and a started script is pushed on a frame that is not calling; each
\* logged return from a script that ran is the return of the frame above
\* the calling frame to the CallScript step that frame stands on, and the
\* result logged is the one sent to it; a frame is sent a ScriptCallResult
\* only while it stands on a CallScript step; and when the frame above a
\* frame that is not calling leaves the stack, the frame beneath is left
\* as it is.
C34_CallReturnMatching ==
    /\ [](\A i \in 1..Len(stack) : (stack[i].cur.k = "call" => Calls(stack, i)))
    /\ [][/\ (\A j \in NewlyLogged :
                 (Logged'[j].is_exit /\ ~Logged'[j].result.aborted) =>
                     \E i \in 1..(Len(stack) - 1) :
                         /\ Calls(stack, i) /\ stack[i].cur = Logged'[j].step
                         /\ Logged'[j].script_name = stack[i].name
                         /\ ChildLeaves(i)
                         /\ SameFrame(i) => stack'[i].fed = Logged'[j].result /\ stack'[i].pos = stack[i].pos + 1)
           /\ (\A i \in 1..Len(stack) :
                 (SameFrame(i) /\ stack'[i].fed # stack[i].fed /\ stack'[i].fed.k = "scriptcall") =>
                     stack[i].cur.k = "call")
           /\ (\A i \in 1..(Len(stack) - 1) :
                 (SameFrame(i) /\ ChildLeaves(i) /\ stack[i].cur.k # "call") =>
                     Untouched(i) /\ Len(stack') = i)]_vars

\* a script started on top of a frame suspended at an Llm step ran to its
\* end and was popped, and the frame beneath it is as it was
C34_Witness ==
    /\ pc = "idle" /\ call.tool = "start" /\ call.name = "autoonly"
    /\ before # <<>> /\ Top(before).kind = "compiled" /\ Top(before).cur.k = "llm"
    /\ Len(result.executed) >= 1 /\ result.executed[1].script_name = "autoonly"
    /\ Len(stack) = Len(before) /\ Top(stack) = Top(before)

\* The entry markers the step logs for the CallScript step `step`.
NewEntries(step) == { j \in NewlyLogged : Logged'[j].is_entry /\ Logged'[j].step = step }

\* The exit markers the step logs for the CallScript step `step`.
NewExits(step) == { j \in NewlyLogged : Logged'[j].is_exit /\ Logged'[j].step = step }

\* The i-th frame comes to stand on a CallScript step in the step.
StartsCalling(i) ==
    /\ stack'[i].cur.k = "call"
    /\ ~(i <= Len(stack) /\ stack[i].cur = stack'[i].cur)

\* C35: the log of executed steps is empty whenever a tool call has
\* returned, so what one RunResult reported is in no later one; no marker
\* is twice in one RunResult; the log only grows, in order, until the
\* RunResult is built from it, and the response shows all of it; the Auto
\* step that was executed is logged first and once, and no other Auto
\* result is logged; a frame that comes to stand on a CallScript step logs
\* one entry marker for it; when the called frame leaves the stack one
\* exit marker is logged for the step; and an entry marker whose script
\* does not load is followed at once by its exit marker.
C35_TrailExactlyOnce ==
    /\ [](pc = "idle" => recent = <<>>)
    /\ [](\A i, j \in 1..Len(Logged) :
             (i # j /\ Logged[i].step = Logged[j].step) =>
                 (Logged[i].is_entry # Logged[j].is_entry \/ Logged[i].is_exit # Logged[j].is_exit))
    /\ [][/\ (Len(recent) <= Len(Logged') /\ SubSeq(Logged', 1, Len(recent)) = recent)
           /\ (result'.ran => response'.steps = format_executed_steps(Logged') /\ recent' = <<>>)
           /\ (pc = "auto" =>
                 /\ AutoEntry.step = Top(stack).cur /\ ~AutoEntry.is_entry /\ ~AutoEntry.is_exit
                 /\ AutoEntry.script_name = Top(stack).name /\ AutoEntry.result # NoResult)
           /\ (\A j \in NewlyLogged :
                 (~Logged'[j].is_entry /\ ~Logged'[j].is_exit) => (pc = "auto" /\ j = Len(recent) + 1))
           /\ (\A i \in 1..Len(stack') :
                 StartsCalling(i) =>
                     Cardinality(NewEntries(stack'[i].cur)) = 1 /\ NewExits(stack'[i].cur) = {})
           /\ (\A i \in 1..(Len(stack) - 1) :
                 (Calls(stack, i) /\ ChildLeaves(i)) =>
                     Cardinality(NewExits(stack[i].cur)) = 1 /\ NewEntries(stack[i].cur) = {})
           /\ (\A j \in NewlyLogged :
                 (Logged'[j].is_entry /\ load_script(Logged'[j].step.name) = "error") =>
                     /\ j < Len(Logged') /\ Logged'[j + 1].is_exit
                     /\ Logged'[j + 1].step = Logged'[j].step /\ Logged'[j + 1].result.aborted)]_vars

\* one response reports a call into a script, a step the script executed
\* and the return from it, in this order
C35_Witness ==
    /\ pc = "idle" /\ result.ran /\ recent = <<>>
    /\ \E i, j, k \in 1..Len(result.executed) :
          /\ i < j /\ j < k
          /\ result.executed[i].is_entry
          /\ ~result.executed[j].is_entry /\ ~result.executed[j].is_exit
          /\ result.executed[j].script_name = result.executed[i].step.name
          /\ result.executed[k].is_exit /\ result.executed[k].step = result.executed[i].step

\* The number of steps the script of frame f has yielded so far.
StepsYielded(f) == IF f.pos <= Len(Steps(f.name)) THEN f.pos ELSE Len(Steps(f.name))

\* The i-th frame called the compiled script of the frame above it, and
\* that frame leaves the stack in the step.
CompiledChildReturns(i) ==
    /\ Calls(stack, i) /\ ChildLeaves(i) /\ stack[i + 1].kind = "compiled"

\* C36: when a called compiled script leaves the stack, the exit marker
\* logged for the CallScript step and the result sent to the calling frame
\* report as steps_executed the number of steps the script yielded, after a
\* normal completion as well as after a completed fallback.
C36_StepsExecutedIsCount ==
    [][\A i \in 1..(Len(stack) - 1) :
          CompiledChildReturns(i) =>
              /\ \A j \in NewExits(stack[i].cur) :
                    Logged'[j].result.steps = StepsYielded(stack[i + 1])
              /\ SameFrame(i) => stack'[i].fed.steps = StepsYielded(stack[i + 1])]_vars

\* The same for the returns from a completed fallback only.
C36_FallbackCountsSteps ==
    [][\A i \in 1..(Len(stack) - 1) :
          (CompiledChildReturns(i) /\ stack[i + 1].exc # NoResult) =>
              /\ \A j \in NewExits(stack[i].cur) :
                    Logged'[j].result.steps = StepsYielded(stack[i + 1])
              /\ SameFrame(i) => stack'[i].fed.steps = StepsYielded(stack[i + 1])]_vars

\* C37: a call of run_until_llm returns: from every point of its loop and
\* from every await of an Auto step, control comes back to the caller; it
\* comes back with an Llm step, an NL script or a fallback pending, or with
\* the stack empty; and each pass of the loop leaves what the whole call
\* will return as it was.
C37_RunTerminates ==
    /\ (pc # "idle") ~> (pc = "idle")
    /\ [][pc = "loop" =>
             IF pc' = "loop"
             THEN run_until_llm(World') = run_until_llm(World)
             ELSE /\ RunReturns(run_until_llm(World))
                  /\ pc' = "idle" => (result'.pending.k # "none" \/ stack' = <<>>)]_vars

\* run_until_llm returned with the stack empty after it popped a frame
\* whose script had run to its end
C37_Witness ==
    /\ pc = "idle" /\ call.tool = "run_until_llm" /\ result.ran
    /\ before # <<>> /\ stack = <<>> /\ result.pending.k = "none"

\* A started workflow has not reported completion yet.
Underway == pc = "auto" \/ Presented # "none"

\* The i-th frame is on the stack after the step as well.
Stays(i) == i <= Len(stack') /\ stack'[i].fid = stack[i].fid /\ stack'[i].name = stack[i].name

\* C38: under a driver that answers every response as the protocol asks,
\* a workflow that is underway leads to a response reporting that all
\* steps completed, with nothing pending; the answer to an Llm step moves
\* the frame that presented it past the step, or off the stack; and no
\* frame goes back in its script or changes the Llm step it stands on
\* before the step is answered, so an answered step is not presented again.
C38_CooperativeProgress ==
    /\ Underway ~> (pc = "idle" /\ AllStepsCompleted /\ Presented = "none")
    /\ [][/\ (call'.tool = "continue_compiled_script" /\ pc = "idle") =>
                 /\ response'.kind \notin ErrorResponses
                 /\ Stays(Len(stack)) => stack'[Len(stack)].pos > Top(stack).pos
                 /\ \A i \in 1..Len(stack') :
                       (stack'[i].fid = Top(stack).fid /\ stack'[i].name = Top(stack).name)
                           => stack'[i].cur # Top(stack).cur
           /\ (\A i \in 1..Len(stack) :
                 Stays(i) =>
                     /\ stack'[i].pos >= stack[i].pos
                     /\ (stack'[i].pos = stack[i].pos /\ stack[i].cur.k = "llm") =>
                            stack'[i].cur = stack[i].cur)]_vars

\* the last Llm step of a script that called other scripts was answered
\* and the response reports that all steps completed
C38_Witness ==
    /\ pc = "idle" /\ AllStepsCompleted /\ call.tool = "continue_compiled_script"
    /\ Len(before) = 1 /\ before[1].name = "nested" /\ before[1].pos = Len(Steps("nested"))

\* The text of the cassette's file loads, and as the events of its last
\* save.
Loads ==
    /\ ~scan_raises(cas.text)
    /\ ~load_raises(Data(List(load_events(cas.text))))
    /\ load_events(cas.text) = SavedEvents

\* The event the step records first.
NextRecorded == cas'.events[Len(cas.events) + 1]

\* The Auto step that was being executed is recorded as the next event
\* and saved in the same step.
AutoStepSaved ==
    /\ Len(cas'.events) > Len(cas.events)
    /\ NextRecorded = build_recorded_auto_step_event(Top(stack).cur, NextRecorded.result, Top(stack).wd)
    /\ cas'.saved >= Len(cas.events) + 1
    /\ pc' = "auto" => cas'.saved = Len(cas'.events)

\* C39: while recording, each executed Auto step is recorded and saved
\* before the workflow goes on to its next step; whenever a tool call has
\* returned, every event recorded so far has been saved; and from the
\* first save on the file loads as a cassette holding the events saved so
\* far.
C39_RecordingPersisted ==
    /\ []((cas.mode = "record" /\ pc = "idle" /\ call.tool # "") => cas.saved = Len(cas.events))
    /\ []((cas.mode = "record" /\ cas.saved > 0) => Loads)
    /\ [][(pc = "auto" /\ cas.mode = "record") => AutoStepSaved]_vars

\* No recorded command printed an output that ends with an empty line.
NoBlankEnded ==
    \A i \in 1..Len(cas.events) :
        cas.events[i].class = "AutoStepEvent" => cas.events[i].result.out # BlankEnded

\* The same as long as no recorded output ends with an empty line.
C39_PersistedUnlessBlankEnded ==
    /\ []((cas.mode = "record" /\ pc = "idle" /\ call.tool # "") => cas.saved = Len(cas.events))
    /\ []((cas.mode = "record" /\ cas.saved > 0 /\ NoBlankEnded) => Loads)
    /\ [][(pc = "auto" /\ cas.mode = "record") => AutoStepSaved]_vars
====
